---------------------------- MODULE Spec2Model ----------------------------
(***************************************************************************)
(* Membership Lifecycle Analytics Engine (src/hud2.py, src/hud2_charts.py) *)
(*                                                                         *)
(* Representation of Python values                                         *)
(*   - a datetime.date object is its day number since 1970-01-01 (an Int); *)
(*     an optional date is a sequence: << >> for None, <<n>> for a date.   *)
(*   - an ISO date string "YYYY-MM-DD" is the triple <<y, m, d>>; None is  *)
(*     << >>.  isoformat and strptime convert between the two forms.       *)
(*   - a raw number n is the pair (q, r) with n = q * 10^9 + r and         *)
(*     0 <= r < 10^9, so that nanosecond epochs fit 32-bit integers.       *)
(*   - a float amount of money divided by 12 is kept exactly, in twelfths  *)
(*     of a minor currency unit: field mrr holds MrrDen * (python mrr).    *)
(*   - an exception is the name of its class in variable error; "" is a    *)
(*     normal return.                                                      *)
(*   - a Member dict is a record; its field dt is << >> while the dict has *)
(*     no joined_at_dt / exited_at_dt keys, and <<joined_at_dt,            *)
(*     exited_at_dt>> once update_hud2 has added them.  community_slug is  *)
(*     passed through unread and is left out.                              *)
(*   - a list comprehension over the member list is the set of the         *)
(*     positions it keeps; a float ratio n/d is the pair value, den.       *)
(*   - where a function reads the year and month of its datetimes, a       *)
(*     datetime at midnight is the triple DateOf(day number); the entries  *)
(*     of a cohort row are <<month_n_count, month_n_pct>> with the         *)
(*     percentage in hundredths of a percent.                              *)
(***************************************************************************)
EXTENDS Integers, Sequences, FiniteSets, TLC

VARIABLES
    pc,                 \* position of the run: "input", "done", "build", ...
    today,              \* the wall-clock date the functions read (day number)
    raw,                \* member_obj handed to convert_member_to_hud2
    billing_products,   \* billing_products handed to convert_member_to_hud2
    force_active,       \* force_active handed to convert_member_to_hud2
    result,             \* << >> or <<Member>>: what convert_member_to_hud2 returned
    error,              \* "" or the exception convert_member_to_hud2 raised
    prev,               \* the previous result, kept across a re-harvest or re-run
    formatted_members,  \* update_hud2's formatted_members list
    formatted_active_members,  \* update_hud2's list of the active listing
    out                 \* what the last calculator returned

vars == <<pc, today, raw, billing_products, force_active, result, error, prev,
          formatted_members, formatted_active_members, out>>

---------------------------------------------------------------------------
(* Calendar: datetime.date <-> (year, month, day)                          *)

\* denominator of the exact representation of price / 12
MrrDen == 12

\* timedelta(days=30): the churn window
WindowDays == 30

\* raw timestamps above 1e12 are nanoseconds: 1e12 = NsThresholdGiga * 10^9
NsThresholdGiga == 1000

IsLeap(y) == (y % 4 = 0 /\ y % 100 # 0) \/ y % 400 = 0

DaysInMonth(y, m) ==
    IF m = 2 THEN (IF IsLeap(y) THEN 29 ELSE 28)
    ELSE IF m \in {4, 6, 9, 11} THEN 30 ELSE 31

\* date(y, m, d) as a day number (proleptic Gregorian, days since 1970-01-01)
days_from_civil(y, m, d) ==
    LET yy  == IF m <= 2 THEN y - 1 ELSE y
        era == yy \div 400
        yoe == yy - era * 400
        mp  == IF m > 2 THEN m - 3 ELSE m + 9
        doy == (153 * mp + 2) \div 5 + d - 1
        doe == yoe * 365 + yoe \div 4 - yoe \div 100 + doy
    IN  era * 146097 + doe - 719468

\* the (year, month, day) of a day number
civil_from_days(z) ==
    LET zz  == z + 719468
        era == zz \div 146097
        doe == zz - era * 146097
        yoe == (doe - doe \div 1460 + doe \div 36524 - doe \div 146096) \div 365
        doy == doe - (365 * yoe + yoe \div 4 - yoe \div 100)
        mp  == (5 * doy + 2) \div 153
        d   == doy - (153 * mp + 2) \div 5 + 1
        m   == IF mp < 10 THEN mp + 3 ELSE mp - 9
        y   == yoe + era * 400 + (IF m <= 2 THEN 1 ELSE 0)
    IN  <<y, m, d>>

\* date.isoformat(): "YYYY-MM-DD"
isoformat(d) == civil_from_days(d)

\* datetime.strptime(s, "%Y-%m-%d").date()
strptime(s) == days_from_civil(s[1], s[2], s[3])

---------------------------------------------------------------------------
(* Raw values of the harvested records                                     *)

NoneTs     == [kind |-> "none",   a |-> 0, b |-> 0, c |-> 0]
Num(q, r)  == [kind |-> "num",    a |-> q, b |-> r, c |-> 0]
Iso(y,m,d) == [kind |-> "iso",    a |-> y, b |-> m, c |-> d]
\* a string of digits, other than the 8-digit form fromisoformat reads as a date
Digits(q,r) == [kind |-> "digits", a |-> q, b |-> r, c |-> 0]
JunkStr    == [kind |-> "junk",   a |-> 0, b |-> 0, c |-> 0]
EmptyStr   == [kind |-> "empty",  a |-> 0, b |-> 0, c |-> 0]

\* results of a helper: a value, or an exception on its way up
Ok(v)      == [exc |-> "", val |-> v]
Raise(e)   == [exc |-> e,  val |-> << >>]

\* Python truthiness of a raw value: None, 0 and "" are falsy
Truthy(ts) ==
    CASE ts.kind = "none"  -> FALSE
      [] ts.kind = "empty" -> FALSE
      [] ts.kind = "num"   -> ~(ts.a = 0 /\ ts.b = 0)
      [] OTHER             -> TRUE

\* datetime.utcfromtimestamp(ts).date() of a number (q, r), after the
\* nanosecond rescaling.  Years outside 1..9999 raise.
utcfromtimestamp(q, r) ==
    LET nanos == q > NsThresholdGiga \/ (q = NsThresholdGiga /\ r > 0)
        tooLate  == q > 253 \/ (q = 253 /\ r > 402300799)
        tooEarly == q < -63 \/ (q = -63 /\ r < 864403200)
    IN  IF nanos THEN Ok(<<q \div 86400>>)
        ELSE IF tooLate \/ tooEarly THEN Raise("ValueError")
        ELSE Ok(<<q * 11574 + (q * 6400 + r) \div 86400>>)

\* datetime.fromisoformat(s).date() succeeds on a well-formed calendar date
ValidIso(y, m, d) ==
    /\ y \in 1..9999
    /\ m \in 1..12
    /\ d \in 1..DaysInMonth(y, m)

parse_ts(ts) ==
    CASE ts.kind = "none" -> Ok(<< >>)
      [] ts.kind = "num"  -> utcfromtimestamp(ts.a, ts.b)
      [] ts.kind = "iso"  ->
            IF ValidIso(ts.a, ts.b, ts.c)
            THEN Ok(<<days_from_civil(ts.a, ts.b, ts.c)>>)
            ELSE Ok(<< >>)              \* int("2023-02-30") raises, caught
      [] ts.kind = "digits" ->
            LET r == utcfromtimestamp(ts.a, ts.b)
            IN  IF r.exc # "" THEN Ok(<< >>) ELSE r
      [] OTHER -> Ok(<< >>)             \* "" and junk: both parses fail

---------------------------------------------------------------------------
(* Member Normalizer: convert_member_to_hud2                               *)

\* member_obj.get("member", {}).get(f): an absent "member" key reads as {}
MemberField(member_obj, f) ==
    IF member_obj.member_kind = "dict" THEN member_obj[f] ELSE NoneTs

\* member.get("member", {}).get("billingProductId"); "" stands for None or ""
BillingProductId(member_obj) ==
    IF member_obj.member_kind = "dict" THEN member_obj.billingProductId ELSE ""

\* the entries of the billing table stored under key id (at most one)
Lookup(bps, id) == { i \in 1..Len(bps) : bps[i].id = id }

\* float(price), with the except branch: 0.0 for what float() rejects
FloatPrice(price) ==
    CASE price.kind = "num"    -> price.v
      [] price.kind = "numstr" -> price.v
      [] OTHER                 -> 0

\* the interval normalisation of get_plan_type_price_and_mrr
PlanTypeOf(interval) ==
    IF interval \in {"year", "annual"} THEN "annual"
    ELSE IF interval \in {"month", "monthly"} THEN "monthly"
    ELSE IF interval \in {"one_time", "one-time"} THEN "one_time"
    ELSE "unknown"

\* mutant: the annual price is not spread over twelve months
MrrOf_AnnualUndivided(plan_type, price) ==
    IF plan_type \in {"annual", "monthly"} THEN price * MrrDen ELSE 0

\* "MRR logic: always monthly"; the result is in units of 1/MrrDen
MrrOf(plan_type, price) ==
    IF plan_type = "annual" THEN price          \* price / 12
    ELSE IF plan_type = "monthly" THEN price * MrrDen
    ELSE 0

get_plan_type_price_and_mrr(member_obj, bps) ==
    LET billing_product_id == BillingProductId(member_obj)
        hit == Lookup(bps, billing_product_id)
    IN  IF billing_product_id # "" /\ Len(bps) > 0 /\ hit # {}
        THEN LET bp        == bps[CHOOSE i \in hit : TRUE]
                 interval  == IF bp.interval = "" THEN "unknown" ELSE bp.interval
                 plan_type == PlanTypeOf(interval)
                 price     == FloatPrice(bp.price)
             IN  [plan_type |-> plan_type, price |-> price,
                  mrr |-> MrrOf(plan_type, price)]
        ELSE [plan_type |-> "unknown", price |-> 0, mrr |-> 0]

\* mutant: removedAt stands in for a missing churned timestamp
get_churn_date_UsesRemovedAt(member_obj) ==
    IF member_obj.member_kind = "null" THEN Raise("AttributeError")
    ELSE IF Truthy(MemberField(member_obj, "churned"))
         THEN parse_ts(MemberField(member_obj, "churned"))
         ELSE parse_ts(MemberField(member_obj, "removedAt"))

\* "NOTE: dont use removedAt for this..."
get_churn_date(member_obj) ==
    IF member_obj.member_kind = "null" THEN Raise("AttributeError")
    ELSE IF Truthy(MemberField(member_obj, "churned"))
         THEN parse_ts(MemberField(member_obj, "churned"))
         ELSE Ok(<< >>)

\* level: <<lv>> for a number, << >> for the default ""
get_level(member_obj) ==
    IF member_obj.metadata_kind = "null" THEN Raise("AttributeError")
    ELSE IF member_obj.metadata_kind = "absent" THEN Ok(<< >>)
    ELSE CASE member_obj.spData = "absent"    -> Ok(<< >>)
           [] member_obj.spData = "dict"      -> Ok(<<member_obj.lv>>)
           [] member_obj.spData = "json_obj"  -> Ok(<<member_obj.lv>>)
           [] member_obj.spData = "json_bad"  -> Ok(<< >>)
           [] OTHER                           -> Raise("AttributeError")
              \* null, or JSON text of a list or a number: no .get

get_months_renewed(member_obj, monthly_or_annual, now) ==
    LET approved_at == parse_ts(MemberField(member_obj, "approvedAt"))
    IN  IF approved_at.exc # "" THEN approved_at
        ELSE IF approved_at.val = << >> THEN Ok(0)
        ELSE LET days_between == now - approved_at.val[1]
             IN  IF monthly_or_annual = "monthly"
                 THEN Ok(days_between \div 30)
                 ELSE Ok(days_between \div 365)

\* mutant: force_active is ignored
IsActiveOf_NoForce(exited_at, force) == exited_at = << >>

\* is_active = exited_at is None; if force_active: is_active = True
IsActiveOf(exited_at, force) == force \/ exited_at = << >>

convert_member_to_hud2(member_obj, force, bps, now) ==
    IF member_obj.member_kind = "null" THEN Raise("AttributeError")
    ELSE
    LET joined_at_date == parse_ts(MemberField(member_obj, "approvedAt"))
        exited_at_date == get_churn_date(member_obj)
    IN  IF joined_at_date.exc # "" THEN Raise(joined_at_date.exc)
        ELSE IF exited_at_date.exc # "" THEN Raise(exited_at_date.exc)
        ELSE
        LET joined_at == IF joined_at_date.val # << >>
                         THEN isoformat(joined_at_date.val[1]) ELSE << >>
            exited_at == IF exited_at_date.val # << >>
                         THEN isoformat(exited_at_date.val[1]) ELSE << >>
            plan      == get_plan_type_price_and_mrr(member_obj, bps)
            level     == get_level(member_obj)
            renewed   == get_months_renewed(member_obj, plan.plan_type, now)
        IN  IF level.exc # "" THEN Raise(level.exc)
            ELSE IF renewed.exc # "" THEN Raise(renewed.exc)
            ELSE Ok(<<[id                   |-> member_obj.id,
                       joined_at            |-> joined_at,
                       exited_at            |-> exited_at,
                       is_active            |-> IsActiveOf(exited_at, force),
                       mrr                  |-> plan.mrr,
                       price                |-> plan.price,
                       plan_type            |-> plan.plan_type,
                       active_or_cancelling |-> "active",
                       level                |-> level.val,
                       months_renewed       |-> renewed.val,
                       dt                   |-> << >>]>>)

---------------------------------------------------------------------------
(* Inputs of the normalizer                                                *)

\* the reference date of the runs: 2024-03-15
RefDay == days_from_civil(2024, 3, 15)

\* timestamps as the platform may deliver them
TsValues ==
    { NoneTs, EmptyStr, JunkStr,
      Num(0, 0),                    \* 0: falsy
      Num(1, 710460800),            \* epoch seconds of 2024-03-15
      Num(1710460800, 0),           \* the same instant in nanoseconds
      Num(1710, 460800000),         \* the same instant in milliseconds
      Num(500, 0),                  \* 5e11 s: beyond year 9999
      Digits(1, 707955200),         \* "1707955200": 2024-02-15
      Digits(500, 0),
      Iso(2024, 2, 14),             \* 30 days before RefDay
      Iso(2024, 2, 15),             \* 29 days before RefDay
      Iso(2023, 3, 16),             \* 365 days before RefDay
      Iso(2024, 3, 16),             \* the day after RefDay
      Iso(2023, 2, 29) }            \* no such day

\* the nesting of the record: member, metadata and spData present or not
Shapes ==
    { <<"dict", "dict", "absent">>,   <<"dict", "dict", "dict">>,
      <<"dict", "dict", "json_obj">>, <<"dict", "dict", "json_bad">>,
      <<"dict", "dict", "json_list">>, <<"dict", "dict", "null">>,
      <<"dict", "absent", "absent">>, <<"dict", "null", "absent">>,
      <<"absent", "dict", "dict">>,   <<"null", "dict", "dict">> }

RawRecord(shape, approved, churned, removed, bpid) ==
    [id               |-> 1,
     member_kind      |-> shape[1],
     approvedAt       |-> approved,
     churned          |-> churned,
     removedAt        |-> removed,
     billingProductId |-> bpid,
     metadata_kind    |-> shape[2],
     spData           |-> shape[3],
     lv               |-> 3]

\* values of a billing product's amount
PriceValues ==
    { [kind |-> "num", v |-> 1200], [kind |-> "num", v |-> 0],
      [kind |-> "numstr", v |-> 4900], [kind |-> "junk", v |-> 0],
      [kind |-> "none", v |-> 0] }

\* values of a billing product's interval; "" is a missing key
IntervalValues ==
    { "year", "annual", "month", "monthly", "one_time", "one-time", "week", "" }

BillingProduct(id, interval, price) ==
    [id |-> id, interval |-> interval, price |-> price]

\* billing tables: None or {}, one product, or two products
BillingTables ==
    { << >> }
    \cup { <<BillingProduct("bp1", i, p)>> : i \in IntervalValues, p \in PriceValues }
    \cup { <<BillingProduct("bp2", "month", [kind |-> "num", v |-> 900]),
             BillingProduct("bp1", i, [kind |-> "num", v |-> 1200])>> :
           i \in {"year", "one_time"} }

NoOut == [op |-> "", no_annual |-> FALSE, value |-> 0, den |-> 1,
          starting |-> {}, churned |-> {}]

\* the normalizer on the timestamps and the nesting of one record
InitNorm ==
    /\ pc = "input"
    /\ today = RefDay
    /\ \E shape \in Shapes, approved \in TsValues, churned \in TsValues,
          removed \in {NoneTs, Iso(2024, 3, 1)} :
         /\ shape[1] = "dict" \/ (approved = NoneTs /\ churned = NoneTs
                                   /\ removed = NoneTs)
         /\ raw = RawRecord(shape, approved, churned, removed,
                            IF shape[1] = "dict" THEN "bp1" ELSE "")
    /\ billing_products \in
         { << >>,
           <<BillingProduct("bp1", "month", [kind |-> "num", v |-> 4900])>>,
           <<BillingProduct("bp1", "year", [kind |-> "num", v |-> 1200])>> }
    /\ force_active \in BOOLEAN
    /\ result = << >>
    /\ error = ""
    /\ prev = << >>
    /\ formatted_members = << >>
    /\ formatted_active_members = << >>
    /\ out = NoOut

\* the normalizer on the billing table of one record
InitPlan ==
    /\ pc = "input"
    /\ today = RefDay
    /\ \E churned \in {NoneTs, Iso(2024, 3, 1)}, bpid \in {"", "bp1", "bp9"} :
         raw = RawRecord(<<"dict", "dict", "dict">>, Iso(2024, 2, 14), churned,
                         NoneTs, bpid)
    /\ billing_products \in BillingTables
    /\ force_active \in BOOLEAN
    /\ result = << >>
    /\ error = ""
    /\ prev = << >>
    /\ formatted_members = << >>
    /\ formatted_active_members = << >>
    /\ out = NoOut

\* one call of convert_member_to_hud2
Convert ==
    /\ pc = "input"
    /\ LET r == convert_member_to_hud2(raw, force_active, billing_products, today)
       IN  /\ result' = r.val
           /\ error' = r.exc
    /\ pc' = "done"
    /\ UNCHANGED <<today, raw, billing_products, force_active, prev,
                   formatted_members, formatted_active_members, out>>

\* the same record harvested again, its removedAt field changed
Reharvest ==
    /\ pc = "done"
    /\ error = ""
    /\ prev = << >>
    /\ raw.member_kind = "dict"
    /\ \E removed \in {NoneTs, Iso(2024, 3, 1), Iso(2024, 2, 20)} :
         /\ removed # raw.removedAt
         /\ raw' = [raw EXCEPT !.removedAt = removed]
    /\ prev' = result
    /\ pc' = "input"
    /\ UNCHANGED <<today, billing_products, force_active, result, error,
                   formatted_members, formatted_active_members, out>>

NextNorm == Convert \/ Reharvest

SpecNorm == InitNorm /\ [][NextNorm]_vars

SpecPlan == InitPlan /\ [][Convert]_vars

---------------------------------------------------------------------------
(* Properties of the normalizer                                            *)

\* a Member was returned
Returned == pc = "done" /\ error = "" /\ Len(result) = 1

\* order of two ISO date strings
IsoLE(s, t) ==
    \/ s[1] < t[1]
    \/ s[1] = t[1] /\ s[2] < t[2]
    \/ s[1] = t[1] /\ s[2] = t[2] /\ s[3] <= t[3]

\* the billing table holds no product under the record's billingProductId
Unresolved ==
    \/ raw.member_kind # "dict"
    \/ raw.billingProductId = ""
    \/ \A i \in 1..Len(billing_products) :
          billing_products[i].id # raw.billingProductId

\* C1: the mrr of every returned Member follows from its plan_type and price:
\* price/12 for annual, price for monthly, 0 for one_time and unknown; a record
\* whose billingProductId is missing or not in the table gets unknown, 0, 0.
C1_MrrFromPlanAndPrice ==
    Returned =>
      LET m == result[1]
      IN  /\ m.plan_type \in {"annual", "monthly", "one_time", "unknown"}
          /\ m.plan_type = "annual" => m.mrr * 12 = m.price * MrrDen
          /\ m.plan_type = "monthly" => m.mrr = m.price * MrrDen
          /\ m.plan_type \in {"one_time", "unknown"} => m.mrr = 0
          /\ Unresolved => m.plan_type = "unknown" /\ m.price = 0 /\ m.mrr = 0

C1_Witness ==
    /\ Returned
    /\ result[1].plan_type = "annual"
    /\ result[1].price = 1200
    /\ result[1].mrr * 12 = 1200 * MrrDen

\* C2: convert_member_to_hud2 never raises: every call returns a Member.
C2_NeverRaises == pc = "done" => error = ""

\* C3: without force_active, is_active is true exactly when exited_at is null;
\* with force_active, is_active is true and exited_at still carries the date of
\* the churned timestamp.
C3_IsActiveIffNoExit ==
    Returned =>
      LET m == result[1]
      IN  /\ ~force_active => (m.is_active <=> m.exited_at = << >>)
          /\ force_active => m.is_active
          /\ (raw.churned.kind = "iso"
                /\ ValidIso(raw.churned.a, raw.churned.b, raw.churned.c))
             => m.exited_at = <<raw.churned.a, raw.churned.b, raw.churned.c>>

C3_Witness ==
    /\ Returned
    /\ force_active
    /\ result[1].is_active
    /\ result[1].exited_at = <<2024, 2, 14>>

\* C4: exited_at and is_active depend on the churned timestamp only: the record
\* harvested again with another removedAt normalizes to the same Member, and a
\* record without a churned value has exited_at = null whatever its removedAt.
C4_RemovedAtIgnored ==
    /\ (pc = "done" /\ prev # << >>) => (error = "" /\ result = prev)
    /\ (Returned /\ ~Truthy(MemberField(raw, "churned")))
         => (result[1].exited_at = << >> /\ result[1].is_active)

C4_Witness ==
    /\ Returned
    /\ prev # << >>
    /\ raw.removedAt # NoneTs
    /\ raw.churned = NoneTs
    /\ result[1].exited_at = << >>

\* the value part of C5: months_renewed is floor(days since joined_at / 30) on
\* a monthly plan, floor(days / 365) on an annual plan, 0 when joined_at is null.
C5_MonthsRenewedFloor ==
    Returned =>
      LET m == result[1]
          days == today - strptime(m.joined_at)
      IN  /\ m.joined_at = << >> => m.months_renewed = 0
          /\ (m.joined_at # << >> /\ m.plan_type = "monthly")
               => m.months_renewed = days \div 30
          /\ (m.joined_at # << >> /\ m.plan_type = "annual")
               => m.months_renewed = days \div 365

\* C5, as claimed: the floor value above, and months_renewed >= 0 also for a
\* joined_at after the reference date.
C5_MonthsRenewedNonNegative ==
    /\ C5_MonthsRenewedFloor
    /\ Returned => result[1].months_renewed >= 0

\* C6: a Member with both dates set has joined_at <= exited_at.
C6_JoinedBeforeExited ==
    (Returned /\ result[1].joined_at # << >> /\ result[1].exited_at # << >>)
      => IsoLE(result[1].joined_at, result[1].exited_at)

---------------------------------------------------------------------------
(* Metric calculators                                                      *)

\* largest population the runs harvest
MaxMembers == 2

RECURSIVE SumMrrFrom(_, _, _)
\* sum(m["mrr"] for m in members if keep(m)), from position i on
SumMrrFrom(members, keep, i) ==
    IF i > Len(members) THEN 0
    ELSE (IF i \in keep THEN members[i].mrr ELSE 0)
         + SumMrrFrom(members, keep, i + 1)

\* mutant: every member's mrr is summed, active or not
calculate_mrr_AllMembers(members) ==
    SumMrrFrom(members, 1..Len(members), 1)

calculate_mrr(members) ==
    SumMrrFrom(members, { i \in 1..Len(members) : members[i].is_active }, 1)

calculate_mrr_no_annual(members) ==
    SumMrrFrom(members,
               { i \in 1..Len(members) :
                   members[i].is_active /\ members[i].plan_type # "annual" },
               1)

\* mutant: the denominator is taken at now instead of the window start
churn_starting_AtNow(members, now, no_annual) ==
    { i \in 1..Len(members) :
        /\ members[i].joined_at # << >>
        /\ strptime(members[i].joined_at) <= now
        /\ (members[i].exited_at = << >>
              \/ strptime(members[i].exited_at) > now)
        /\ (~no_annual \/ members[i].plan_type # "annual") }

\* "Denominator: present at start of window"
churn_starting(members, now, no_annual) ==
    LET days_ago_30 == now - WindowDays
    IN  { i \in 1..Len(members) :
            /\ members[i].joined_at # << >>
            /\ strptime(members[i].joined_at) <= days_ago_30
            /\ (members[i].exited_at = << >>
                  \/ strptime(members[i].exited_at) > days_ago_30)
            /\ (~no_annual \/ members[i].plan_type # "annual") }

\* "Numerator: exited during window"
churn_churned(members, now, no_annual) ==
    LET days_ago_30 == now - WindowDays
    IN  { i \in 1..Len(members) :
            /\ members[i].exited_at # << >>
            /\ days_ago_30 <= strptime(members[i].exited_at)
            /\ strptime(members[i].exited_at) <= now
            /\ (~no_annual \/ members[i].plan_type # "annual") }

\* churn_rate = len(churned) / len(starting) * 100 if starting else 0
churn_count_past_30(members, now, no_annual) ==
    LET starting == churn_starting(members, now, no_annual)
        churned  == churn_churned(members, now, no_annual)
    IN  [op |-> "churn_count_past_30", no_annual |-> no_annual,
         value |-> IF starting # {} THEN Cardinality(churned) * 100 ELSE 0,
         den   |-> IF starting # {} THEN Cardinality(starting) ELSE 1,
         starting |-> starting, churned |-> churned]

\* update_hud2, "Parse join/exit dates for all members": the loop adds the
\* keys joined_at_dt and exited_at_dt to every member dict
ParseDates(members) ==
    [ i \in 1..Len(members) |->
        [members[i] EXCEPT !.dt =
           << IF members[i].joined_at # << >>
              THEN <<strptime(members[i].joined_at)>> ELSE << >>,
              IF members[i].exited_at # << >>
              THEN <<strptime(members[i].exited_at)>> ELSE << >> >>] ]

\* update_hud2, "Members active 30 days ago"
active_30_days_ago(members, now) ==
    LET days_ago_30 == now - WindowDays
    IN  { i \in 1..Len(members) :
            /\ members[i].dt[1] # << >>
            /\ members[i].dt[1][1] <= days_ago_30
            /\ (members[i].dt[2] = << >> \/ members[i].dt[2][1] > days_ago_30) }

\* update_hud2, "Churned members in last 30 days"
churned_members_30d(members, now) ==
    LET days_ago_30 == now - WindowDays
    IN  { i \in 1..Len(members) :
            /\ members[i].dt[2] # << >>
            /\ days_ago_30 < members[i].dt[2][1]
            /\ members[i].dt[2][1] <= now }

\* churn_rate_30d = len(churned_members_30d) / len(active_30_days_ago), or 0
churn_rate_30d(members, now) ==
    LET starting == active_30_days_ago(members, now)
        churned  == churned_members_30d(members, now)
    IN  [op |-> "update_hud2", no_annual |-> FALSE,
         value |-> IF starting # {} THEN Cardinality(churned) ELSE 0,
         den   |-> IF starting # {} THEN Cardinality(starting) ELSE 1,
         starting |-> starting, churned |-> churned]

\* update_hud2, "Members active today"
active_today(members, now) ==
    { i \in 1..Len(members) :
        /\ members[i].dt[1] # << >>
        /\ members[i].dt[1][1] <= now
        /\ (members[i].dt[2] = << >> \/ members[i].dt[2][1] > now) }

\* update_hud2, members_30d_ago: joined by the window start, exited or not
members_30d_ago(members, now) ==
    LET days_ago_30 == now - WindowDays
    IN  { i \in 1..Len(members) :
            /\ members[i].dt[1] # << >>
            /\ members[i].dt[1][1] <= days_ago_30 }

\* update_hud2, paying_members
paying_members(members) ==
    { i \in 1..Len(members) :
        members[i].is_active /\ (members[i].price > 0 \/ members[i].mrr > 0) }

\* update_hud2, the members counted by total_active_paying_members_no_annual
paying_members_no_annual(members) ==
    { i \in 1..Len(members) :
        /\ members[i].is_active
        /\ members[i].price > 0
        /\ members[i].plan_type # "annual" }

\* update_hud2, churned_members_30d_no_annual
churned_members_30d_no_annual(members, now) ==
    { i \in churned_members_30d(members, now) :
        members[i].plan_type # "annual" }

\* update_hud2, active_30_days_ago_no_annual
active_30_days_ago_no_annual(members, now) ==
    { i \in active_30_days_ago(members, now) :
        members[i].plan_type # "annual" }

\* a float: the quotient num / den, or float("inf")
Ratio(n, d) == [inf |-> FALSE, num |-> n, den |-> d]
Inf == [inf |-> TRUE, num |-> 0, den |-> 1]

\* a / b for two finite floats, b # 0
RatioDiv(a, b) ==
    IF b.num > 0 THEN Ratio(a.num * b.den, a.den * b.num)
    ELSE Ratio(-(a.num * b.den), a.den * (-b.num))

\* int(val): the quotient truncated toward zero
int(val) ==
    IF val.num >= 0 THEN val.num \div val.den
    ELSE -((-val.num) \div val.den)

\* sync_dashboard_to_db's safe_int: None for inf, else int(val)
safe_int(val) == IF val.inf THEN << >> ELSE <<int(val)>>

\* update_hud2's 30-day window and LTV sections, and the two LTV columns of
\* the row sync_dashboard_to_db inserts
update_hud2_window(members, active_members, now) ==
    LET rate      == churn_rate_30d(members, now)
        n_start   == Cardinality(active_30_days_ago(members, now))
        n_before  == Cardinality(members_30d_ago(members, now))
        n_paying  == Cardinality(paying_members(members))
        n_pay_na  == Cardinality(paying_members_no_annual(members))
        n_ch_na   == Cardinality(churned_members_30d_no_annual(members, now))
        n_st_na   == Cardinality(active_30_days_ago_no_annual(members, now))
        acquisition_rate_30d ==
            IF n_before # 0
            THEN Ratio(Len(active_members) - n_before, n_before)
            ELSE Ratio(0, 1)
        growth_rate_30d ==
            IF n_start # 0
            THEN Ratio(Cardinality(active_today(members, now)) - n_start,
                       n_start)
            ELSE Ratio(0, 1)
        arpu ==
            IF n_paying > 0
            THEN Ratio(calculate_mrr(members), MrrDen * n_paying)
            ELSE Ratio(0, 1)
        ltv ==
            IF rate.value # 0
            THEN RatioDiv(arpu, Ratio(rate.value, rate.den))
            ELSE Inf
        arpu_no_annual ==
            IF n_pay_na # 0
            THEN Ratio(calculate_mrr_no_annual(members), MrrDen * n_pay_na)
            ELSE Ratio(0, 1)
        churn_rate_30d_no_annual ==
            IF n_st_na # 0 THEN Ratio(n_ch_na, n_st_na) ELSE Ratio(0, 1)
        ltv_no_annual ==
            IF churn_rate_30d_no_annual.num # 0
            THEN RatioDiv(arpu_no_annual, churn_rate_30d_no_annual)
            ELSE Inf
    IN  [op |-> "update_hud2", no_annual |-> FALSE,
         value |-> rate.value, den |-> rate.den,
         starting |-> rate.starting, churned |-> rate.churned,
         acquisition_rate_30d |-> acquisition_rate_30d,
         growth_rate_30d |-> growth_rate_30d,
         arpu |-> arpu,
         ltv |-> ltv,
         ltv_no_annual |-> ltv_no_annual,
         average_lifetime_value |-> safe_int(ltv),
         average_lifetime_value_no_annual |-> safe_int(ltv_no_annual)]

---------------------------------------------------------------------------
(* A sync run: harvest, normalize, compute                                 *)

\* the community's billing catalogue
Catalogue ==
    << BillingProduct("bp_m", "month", [kind |-> "num", v |-> 4900]),
       BillingProduct("bp_a", "year",  [kind |-> "num", v |-> 12000]) >>

IsoOfDay(d) == Iso(civil_from_days(d)[1], civil_from_days(d)[2],
                   civil_from_days(d)[3])

\* the records of the member listings, dated around the reference date
Harvest ==
    { RawRecord(<<"dict", "dict", "dict">>, IsoOfDay(RefDay - j), c, NoneTs, b) :
        j \in {60, 10},
        c \in {NoneTs} \cup { IsoOfDay(RefDay - x) : x \in {31, 30, 5, 0} },
        b \in {"bp_m", "bp_a"} }
    \cup { RawRecord(<<"dict", "dict", "dict">>, JunkStr, NoneTs, NoneTs, "bp_m") }

\* the next record of the listings: ids are unique in a harvest
Numbered(r) == [r EXCEPT !.id = Len(formatted_members) + 1]

Init ==
    /\ pc = "build"
    /\ today = RefDay
    /\ raw = RawRecord(<<"absent", "absent", "absent">>, NoneTs, NoneTs, NoneTs, "")
    /\ billing_products = Catalogue
    /\ force_active = TRUE
    /\ result = << >>
    /\ error = ""
    /\ prev = << >>
    /\ formatted_members = << >>
    /\ formatted_active_members = << >>
    /\ out = NoOut

\* update_hud2: a member of the active listing, force_active=True; the active
\* members come first in formatted_members (force_active holds the flag of
\* the listing being converted)
AddActive ==
    /\ pc = "build"
    /\ force_active
    /\ Len(formatted_members) < MaxMembers
    /\ \E r \in Harvest :
         LET m == convert_member_to_hud2(Numbered(r), TRUE, billing_products, today)
         IN  /\ m.exc = ""
             /\ formatted_members' = formatted_members \o m.val
             /\ formatted_active_members' = formatted_active_members \o m.val
    /\ UNCHANGED <<pc, today, raw, billing_products, force_active, result,
                   error, prev, out>>

\* update_hud2: a member of the churned listing, force_active=False
AddChurned ==
    /\ pc = "build"
    /\ Len(formatted_members) < MaxMembers
    /\ \E r \in Harvest :
         LET m == convert_member_to_hud2(Numbered(r), FALSE, billing_products, today)
         IN  /\ m.exc = ""
             /\ formatted_members' = formatted_members \o m.val
    /\ force_active' = FALSE
    /\ UNCHANGED <<pc, today, raw, billing_products, result, error, prev,
                   formatted_active_members, out>>

CalculateMrr ==
    /\ pc = "build"
    /\ out' = [NoOut EXCEPT !.op = "calculate_mrr",
                            !.value = calculate_mrr(formatted_members)]
    /\ pc' = "done"
    /\ UNCHANGED <<today, raw, billing_products, force_active, result, error,
                   prev, formatted_members, formatted_active_members>>

CalculateMrrNoAnnual ==
    /\ pc = "build"
    /\ out' = [NoOut EXCEPT !.op = "calculate_mrr_no_annual",
                            !.value = calculate_mrr_no_annual(formatted_members)]
    /\ pc' = "done"
    /\ UNCHANGED <<today, raw, billing_products, force_active, result, error,
                   prev, formatted_members, formatted_active_members>>

ChurnCountPast30 ==
    /\ pc = "build"
    /\ \E no_annual \in BOOLEAN :
         out' = churn_count_past_30(formatted_members, today, no_annual)
    /\ pc' = "done"
    /\ UNCHANGED <<today, raw, billing_products, force_active, result, error,
                   prev, formatted_members, formatted_active_members>>

\* update_hud2's 30-day window section
UpdateHud2Window ==
    /\ pc = "build"
    /\ formatted_members' = ParseDates(formatted_members)
    /\ formatted_active_members' = ParseDates(formatted_active_members)
    /\ out' = update_hud2_window(formatted_members', formatted_active_members',
                                 today)
    /\ pc' = "done"
    /\ UNCHANGED <<today, raw, billing_products, force_active, result, error,
                   prev>>

Next ==
    \/ AddActive
    \/ AddChurned
    \/ CalculateMrr
    \/ CalculateMrrNoAnnual
    \/ ChurnCountPast30
    \/ UpdateHud2Window

Spec == Init /\ [][Next]_vars

\* the next sync: the active listing has one more member, who joined before
\* the window start and has not churned; churn_count_past_30 is run again
\* and the earlier result is kept in prev
ResyncWithOneMoreActive ==
    /\ pc = "done"
    /\ out.op = "churn_count_past_30"
    /\ prev = << >>
    /\ \E m \in { convert_member_to_hud2(Numbered(r), TRUE, billing_products,
                                          today) : r \in Harvest } :
         /\ m.exc = ""
         /\ m.val[1].joined_at # << >>
         /\ strptime(m.val[1].joined_at) <= today - WindowDays
         /\ m.val[1].exited_at = << >>
         /\ formatted_active_members' = formatted_active_members \o m.val
         /\ formatted_members' =
              formatted_active_members'
                \o SubSeq(formatted_members, Len(formatted_active_members) + 1,
                          Len(formatted_members))
    /\ out' = churn_count_past_30(formatted_members', today, out.no_annual)
    /\ prev' = <<out>>
    /\ UNCHANGED <<pc, today, raw, billing_products, force_active, result,
                   error>>

NextResync ==
    \/ AddActive
    \/ AddChurned
    \/ ChurnCountPast30
    \/ ResyncWithOneMoreActive

SpecResync == Init /\ [][NextResync]_vars

---------------------------------------------------------------------------
(* Properties of the metric calculators                                    *)

RECURSIVE SumOver(_, _)
\* the sum of mrr over the members at the positions S
SumOver(members, S) ==
    IF S = {} THEN 0
    ELSE LET i == CHOOSE x \in S : TRUE
         IN  members[i].mrr + SumOver(members, S \ {i})

Positions == 1..Len(formatted_members)

\* the ISO date of the start of the 30-day window
WindowStartIso == civil_from_days(today - WindowDays)

\* member m was active at the window start
ActiveAtWindowStart(m) ==
    /\ m.joined_at # << >>
    /\ IsoLE(m.joined_at, WindowStartIso)
    /\ (m.exited_at = << >> \/ ~IsoLE(m.exited_at, WindowStartIso))

\* member m exited in (now - 30d, now]
ExitedInWindow(m) ==
    /\ m.exited_at # << >>
    /\ ~IsoLE(m.exited_at, WindowStartIso)
    /\ IsoLE(m.exited_at, civil_from_days(today))

\* the plan filter of the calculation that wrote out
PlanCounted(m) == ~out.no_annual \/ m.plan_type # "annual"

C8_DenominatorAtWindowStart ==
    out.op \in {"churn_count_past_30", "update_hud2"} =>
      /\ \A i \in Positions :
           i \in out.starting <=>
             (ActiveAtWindowStart(formatted_members[i])
                /\ PlanCounted(formatted_members[i]))
      /\ out.starting # {} => out.den = Cardinality(out.starting)

C8_Witness ==
    /\ out.op = "churn_count_past_30"
    /\ Len(formatted_members) = 2
    /\ formatted_members[1].joined_at = civil_from_days(today - 10)
    /\ formatted_members[1].exited_at = << >>
    /\ formatted_members[2].joined_at = civil_from_days(today - 60)
    /\ formatted_members[2].exited_at = civil_from_days(today - 5)
    /\ out.starting = {2}
    /\ out.den = 1

\* C9: the numerator of the churn rate counts exactly the members whose
\* exited_at lies in the left-open window (now - 30d, now].
C9_NumeratorLeftOpenWindow ==
    out.op \in {"churn_count_past_30", "update_hud2"} =>
      \A i \in Positions :
        i \in out.churned <=>
          (ExitedInWindow(formatted_members[i])
             /\ PlanCounted(formatted_members[i]))

\* C10: the value returned by churn_count_past_30 is a percentage in [0, 100].
C10_ChurnRateIsPercentage ==
    out.op = "churn_count_past_30" =>
      (0 <= out.value /\ out.value <= 100 * out.den)

\* C11: adding a member who was active at the window start and has not
\* exited never increases the churn rate: the rate of the re-run is at most
\* the rate of the run before it.
C11_AddingActiveNeverRaisesChurn ==
    (pc = "done" /\ out.op = "churn_count_past_30" /\ prev # << >>) =>
        out.value * prev[1].den <= prev[1].value * out.den

\* C12: the dashboard divides by no zero: with no member active at the window
\* start the churn, growth and acquisition rates are 0; with no paying active
\* member ARPU is 0; with a churn rate of 0 both LTVs are infinite and are
\* stored as null.
C12_ZeroDenominatorSentinels ==
    (pc = "done" /\ out.op = "update_hud2") =>
        /\ (\A i \in Positions : ~ActiveAtWindowStart(formatted_members[i])) =>
              /\ out.value = 0
              /\ out.growth_rate_30d.num = 0
              /\ out.acquisition_rate_30d.num = 0
        /\ (\A i \in Positions :
               ~(formatted_members[i].is_active
                   /\ (formatted_members[i].price > 0
                         \/ formatted_members[i].mrr > 0))) =>
              out.arpu.num = 0
        /\ out.value = 0 =>
              /\ out.ltv.inf
              /\ out.ltv_no_annual.inf
              /\ out.average_lifetime_value = << >>
              /\ out.average_lifetime_value_no_annual = << >>

---------------------------------------------------------------------------
(* Year-to-date recurring revenue                                          *)

\* the date object of a day number: its year, month and day
DateOf(d) == civil_from_days(d)

\* date <= date
DateLE(s, t) ==
    \/ s[1] < t[1]
    \/ s[1] = t[1] /\ s[2] < t[2]
    \/ s[1] = t[1] /\ s[2] = t[2] /\ s[3] <= t[3]

\* mutant: an annual member counts whenever it joined by now
annual_active_IgnoresExit(joined_at_dt, exited_at_dt, now) ==
    joined_at_dt <= now

\* get_total_rev_ytd_recurring_only, active_start of the annual branch
annual_active(joined_at_dt, exited_at_dt, now) ==
    /\ joined_at_dt <= now
    /\ (exited_at_dt = << >>
          \/ exited_at_dt[1] >= days_from_civil(DateOf(now)[1], 1, 1))

\* mutant: the joined month is not subtracted when both dates are this year
MonthCount_NoJoinMonth(joined, exited, now) ==
    IF exited # << >> /\ exited[1][1] = now[1]
    THEN [skip |-> FALSE, month_count |-> exited[1][2]]
    ELSE [skip |-> FALSE, month_count |-> now[2]]

\* get_total_rev_ytd_recurring_only, the monthly branch from "start =" to the
\* clamp, on the date objects joined_at_dt, exited_at_dt (<< >> for None) and
\* now; skip is one of the two continue statements
MonthCount(joined, exited, now) ==
    LET current_year  == now[1]
        first_of_year == <<current_year, 1, 1>>
        start == IF DateLE(first_of_year, joined) THEN joined ELSE first_of_year
        exited_this_year == exited # << >> /\ exited[1][1] = current_year
        end == IF exited_this_year THEN exited[1] ELSE now
        c0 == (end[1] - start[1]) * 12 + (end[2] - start[2]) + 1
        c1 == IF joined[1] < current_year THEN end[2] ELSE c0
        c2 == IF exited_this_year /\ joined[1] < current_year
              THEN exited[1][2] ELSE c1
        c3 == IF exited_this_year /\ joined[1] = current_year
              THEN exited[1][2] - joined[2] + 1 ELSE c2
        c4 == IF exited = << >> /\ joined[1] = current_year
              THEN now[2] - joined[2] + 1 ELSE c3
        c5 == IF exited = << >> /\ joined[1] < current_year
              THEN now[2] ELSE c4
    IN  IF end[1] < current_year \/ start[1] > current_year
        THEN [skip |-> TRUE, month_count |-> 0]
        ELSE [skip |-> FALSE, month_count |-> IF c5 > 0 THEN c5 ELSE 0]

\* the monthly branch on the parsed dates of one member
ytd_month_count(joined_at_dt, exited_at_dt, now) ==
    CHOOSE c \in
        { MonthCount(j, e, n) :
            j \in { DateOf(joined_at_dt) },
            e \in { IF exited_at_dt = << >> THEN << >>
                    ELSE <<DateOf(exited_at_dt[1])>> },
            n \in { DateOf(now) } } : TRUE

\* get_total_rev_ytd_recurring_only, one pass of the loop: what the member
\* adds to total_rev (in twelfths of a minor unit) and its month_count
ytd_member(m, now) ==
    IF m.joined_at = << >> THEN [amount |-> 0, month_count |-> 0]
    ELSE
    LET joined_at_dt == strptime(m.joined_at)
        exited_at_dt == IF m.exited_at # << >>
                        THEN <<strptime(m.exited_at)>> ELSE << >>
        months == ytd_month_count(joined_at_dt, exited_at_dt, now)
    IN  IF m.plan_type = "annual"
        THEN [amount |-> IF annual_active(joined_at_dt, exited_at_dt, now)
                         THEN m.price * MrrDen ELSE 0,
              month_count |-> 0]
        ELSE IF m.mrr = 0 \/ months.skip
        THEN [amount |-> 0, month_count |-> 0]
        ELSE [amount |-> m.mrr * months.month_count,
              month_count |-> months.month_count]

RECURSIVE total_rev_from(_, _, _)
\* total_rev after the members from position i on
total_rev_from(members, now, i) ==
    IF i > Len(members) THEN 0
    ELSE ytd_member(members[i], now).amount + total_rev_from(members, now, i + 1)

get_total_rev_ytd_recurring_only(members, now) ==
    [op |-> "get_total_rev_ytd_recurring_only",
     value |-> total_rev_from(members, now, 1),
     den |-> MrrDen,
     added |-> [ i \in 1..Len(members) |-> ytd_member(members[i], now).amount ],
     month_count |->
         [ i \in 1..Len(members) |-> ytd_member(members[i], now).month_count ]]

\* the records of the member listings, dated across the turn of the year
HarvestYtd ==
    { RawRecord(<<"dict", "dict", "dict">>, j, c, NoneTs, b) :
        j \in { Iso(2023, 6, 10), Iso(2024, 1, 15), Iso(2024, 3, 5),
                Iso(2024, 4, 2) },
        c \in { NoneTs, Iso(2023, 11, 30), Iso(2024, 1, 20), Iso(2024, 3, 10) },
        b \in { "bp_m", "bp_a" } }
    \cup { RawRecord(<<"dict", "dict", "dict">>, Iso(2023, 6, 10), NoneTs,
                     NoneTs, ""),
           RawRecord(<<"dict", "dict", "dict">>, Iso(2024, 1, 15),
                     Iso(2024, 3, 10), NoneTs, ""),
           RawRecord(<<"dict", "dict", "dict">>, JunkStr, NoneTs, NoneTs,
                     "bp_a") }

\* update_hud2: the next member of a listing drawn from H, converted with the
\* listing's force_active flag; the active listing comes first
AddFrom(H, force, max) ==
    /\ pc = "build"
    /\ force => force_active
    /\ Len(formatted_members) < max
    /\ \E r \in H :
         LET m == convert_member_to_hud2(Numbered(r), force, billing_products,
                                         today)
         IN  /\ m.exc = ""
             /\ formatted_members' = formatted_members \o m.val
             /\ formatted_active_members' =
                  IF force THEN formatted_active_members \o m.val
                  ELSE formatted_active_members
    /\ force_active' = force
    /\ UNCHANGED <<pc, today, raw, billing_products, result, error, prev, out>>

AddActiveYtd ==
    AddFrom({ r \in HarvestYtd : r.churned = NoneTs }, TRUE, MaxMembers)

AddChurnedYtd ==
    AddFrom({ r \in HarvestYtd : r.churned # NoneTs }, FALSE, MaxMembers)

TotalRevYtd ==
    /\ pc = "build"
    /\ out' = get_total_rev_ytd_recurring_only(formatted_members, today)
    /\ pc' = "done"
    /\ UNCHANGED <<today, raw, billing_products, force_active, result, error,
                   prev, formatted_members, formatted_active_members>>

NextYtd ==
    \/ AddActiveYtd
    \/ AddChurnedYtd
    \/ TotalRevYtd

SpecYtd == Init /\ [][NextYtd]_vars

RECURSIVE SumOf(_, _)
\* the sum of f over the positions S
SumOf(f, S) ==
    IF S = {} THEN 0
    ELSE LET i == CHOOSE x \in S : TRUE
         IN  f[i] + SumOf(f, S \ {i})

\* the ISO date of now, and of January 1 of the current year
TodayIso == civil_from_days(today)
FirstOfYearIso == <<TodayIso[1], 1, 1>>

YtdDone == pc = "done" /\ out.op = "get_total_rev_ytd_recurring_only"

\* the member is on a recurring, non-annual plan with a positive mrr
RecurringMonthly(m) ==
    m.joined_at # << >> /\ m.plan_type # "annual" /\ m.mrr > 0

\* C13: an annual member adds its full price exactly once when joined_at <= now
\* and exited_at is null or on or after January 1 of the current year, and
\* adds 0 otherwise; the total is the sum of what the members add.
C13_AnnualCountedOnce ==
    YtdDone =>
        /\ \A i \in Positions :
             LET m == formatted_members[i]
             IN  m.plan_type = "annual" =>
                   out.added[i] =
                     IF /\ m.joined_at # << >>
                        /\ IsoLE(m.joined_at, TodayIso)
                        /\ (m.exited_at = << >>
                              \/ IsoLE(FirstOfYearIso, m.exited_at))
                     THEN m.price * MrrDen ELSE 0
        /\ out.value = SumOf(out.added, Positions)

\* an annual member who exited this year is counted at its full price beside
\* one who exited last year and is not counted
C13_Witness ==
    /\ YtdDone
    /\ \E i, j \in Positions :
         /\ formatted_members[i].plan_type = "annual"
         /\ formatted_members[i].exited_at = <<2024, 1, 20>>
         /\ out.added[i] = 12000 * MrrDen
         /\ formatted_members[j].plan_type = "annual"
         /\ formatted_members[j].exited_at = <<2023, 11, 30>>
         /\ out.added[j] = 0
         /\ out.value = 12000 * MrrDen

\* C14: a non-annual member with mrr > 0 whose exited_at is before January 1
\* of the current year adds 0 to the year-to-date total.
C14_ExitedBeforeYearAddsNothing ==
    YtdDone =>
        \A i \in Positions :
            LET m == formatted_members[i]
            IN  (/\ RecurringMonthly(m)
                 /\ m.exited_at # << >>
                 /\ ~IsoLE(FirstOfYearIso, m.exited_at)) =>
                    out.added[i] = 0

\* the month count of the four-case table; 0 for a member outside the table
TableMonths(m) ==
    LET joined_before == m.joined_at[1] < TodayIso[1]
        joined_this   == m.joined_at[1] = TodayIso[1]
        exited_this   == m.exited_at # << >> /\ m.exited_at[1] = TodayIso[1]
    IN  CASE joined_before /\ m.exited_at = << >> -> TodayIso[2]
          [] joined_before /\ exited_this -> m.exited_at[2]
          [] joined_this /\ exited_this -> m.exited_at[2] - m.joined_at[2] + 1
          [] joined_this /\ m.exited_at = << >> -> TodayIso[2] - m.joined_at[2] + 1
          [] OTHER -> 0

\* the member is in one of the four cases of the table
InTable(m) ==
    /\ RecurringMonthly(m)
    /\ IsoLE(m.joined_at, TodayIso)
    /\ (m.exited_at = << >> \/ m.exited_at[1] = TodayIso[1])

---------------------------------------------------------------------------
(* Cohort retention table                                                  *)

\* max_months=6, the number of month offsets of a cohort row
MaxMonths == 6

\* largest population of the cohort runs
MaxCohort == 3

\* d + relativedelta(months=n): the month moves by n, the day is clipped to
\* the length of the month reached
AddMonths(d, n) ==
    LET k == d[1] * 12 + (d[2] - 1) + n
        y == k \div 12
        m == (k % 12) + 1
    IN  <<y, m, IF d[3] <= DaysInMonth(y, m) THEN d[3] ELSE DaysInMonth(y, m)>>

\* "YYYY-MM" <= "YYYY-MM" as strings of four-digit years
MonthLE(a, b) == a[1] < b[1] \/ (a[1] = b[1] /\ a[2] <= b[2])

\* mutant: a member whose dict already has the parsed keys is read as not
\* exited
MemberDates_ParsedKeepsNoExit(m) ==
    [joined |-> IF m.joined_at # << >>
                THEN <<DateOf(strptime(m.joined_at))>> ELSE << >>,
     exited |-> IF m.exited_at # << >> /\ m.dt = << >>
                THEN <<DateOf(strptime(m.exited_at))>> ELSE << >>]

\* the datetimes the loops parse from one member's joined_at and exited_at:
\* << >> for None, else <<date>>
MemberDates(m) ==
    [joined |-> IF m.joined_at # << >>
                THEN <<DateOf(strptime(m.joined_at))>> ELSE << >>,
     exited |-> IF m.exited_at # << >>
                THEN <<DateOf(strptime(m.exited_at))>> ELSE << >>]

RECURSIVE sorted_months_Descending(_)
\* mutant: the cohorts are walked latest month first
sorted_months_Descending(months) ==
    IF months = {} THEN << >>
    ELSE LET k == CHOOSE x \in months : \A y \in months : MonthLE(y, x)
         IN  <<k>> \o sorted_months_Descending(months \ {k})

RECURSIVE sorted_months(_)
\* the keys of sorted(cohorts.items())
sorted_months(months) ==
    IF months = {} THEN << >>
    ELSE LET k == CHOOSE x \in months : \A y \in months : MonthLE(x, y)
         IN  <<k>> \o sorted_months(months \ {k})

\* mutant: the members counted are those that exited before the period's end
still_active_CountsExited(dates, cohort_members, period_start, period_end) ==
    Cardinality({ i \in cohort_members :
                    /\ dates[i].exited # << >>
                    /\ ~DateLE(period_end, dates[i].exited[1]) })

\* mutant: every member of the cohort is counted, exited or not
still_active_IgnoresExit(dates, cohort_members, period_start, period_end) ==
    Cardinality(cohort_members)

\* still_active of an offset n >= 1
still_active(dates, cohort_members, period_start, period_end) ==
    Cardinality({ i \in cohort_members :
                    /\ dates[i].joined # << >>
                    /\ DateLE(dates[i].joined[1], period_start)
                    /\ (dates[i].exited = << >>
                          \/ DateLE(period_end, dates[i].exited[1])) })

\* round(num / den, 0): the nearest integer, a tie going to the even one
RoundHalfEven(num, den) ==
    LET q == num \div den
        r == num % den
    IN  IF 2 * r < den THEN q
        ELSE IF 2 * r > den THEN q + 1
        ELSE IF q % 2 = 0 THEN q ELSE q + 1

\* round(still_active / cohort_size * 100, 2), in hundredths of a percent
round_pct(count, cohort_size) == RoundHalfEven(count * 10000, cohort_size)

\* mutant: the loop over the offsets never breaks
period_after_today_Never(period_start, today_dt) == FALSE

\* "if period_start > today": period_start is a midnight, today has the time
\* of day, so the test is on the dates
period_after_today(period_start, today_dt) == ~DateLE(period_start, today_dt)

RECURSIVE cohort_offsets(_, _, _, _, _, _)
\* the loop "for n in range(max_months)" from offset n on: the entries
\* <<month_n_count, month_n_pct>> it adds to the row until it breaks
cohort_offsets(dates, cohort_members, cohort_start, max_months, today_dt, n) ==
    IF n >= max_months
         \/ period_after_today(AddMonths(cohort_start, n), today_dt)
    THEN << >>
    ELSE LET count ==
               IF n = 0 THEN Cardinality(cohort_members)
               ELSE still_active(dates, cohort_members,
                                 AddMonths(cohort_start, n),
                                 AddMonths(cohort_start, n + 1))
         IN  << <<count,
                  IF n = 0 THEN 10000
                  ELSE round_pct(count, Cardinality(cohort_members))>> >>
             \o cohort_offsets(dates, cohort_members, cohort_start, max_months,
                               today_dt, n + 1)

\* the rows of the table on parsed dates: cohort_members are the positions of
\* the cohort, offsets the entries of month_0, month_1, ...
cohort_rows(dates, max_months, today_dt) ==
    LET joined == { i \in DOMAIN dates : dates[i].joined # << >> }
        month_of(i) == <<dates[i].joined[1][1], dates[i].joined[1][2]>>
        keys == sorted_months({ month_of(i) : i \in joined })
    IN  [ r \in 1..Len(keys) |->
            LET cohort_members == { i \in joined : month_of(i) = keys[r] }
            IN  [cohort_month   |-> keys[r],
                 cohort_members |-> cohort_members,
                 offsets |-> cohort_offsets(dates, cohort_members,
                                            <<keys[r][1], keys[r][2], 1>>,
                                            max_months, today_dt, 0)] ]

generate_cohort_retention_table(members, max_months, now) ==
    [op |-> "generate_cohort_retention_table",
     rows |-> CHOOSE t \in
                { cohort_rows(dates, max_months, today_dt) :
                    dates \in { [ i \in 1..Len(members) |->
                                    MemberDates(members[i]) ] },
                    today_dt \in { DateOf(now) } } : TRUE]

\* the records of the member listings, joined from nine months before the
\* reference date to the month after it
HarvestCohort ==
    { RawRecord(<<"dict", "dict", "dict">>, j, c, NoneTs, "bp_m") :
        j \in { Iso(2023, 6, 10), Iso(2023, 12, 20), Iso(2024, 1, 15) },
        c \in { NoneTs, Iso(2024, 2, 10), Iso(2024, 3, 1) } }
    \cup { RawRecord(<<"dict", "dict", "dict">>, j, NoneTs, NoneTs, "bp_m") :
             j \in { Iso(2024, 1, 28), Iso(2024, 4, 2), JunkStr } }

AddActiveCohort ==
    AddFrom({ r \in HarvestCohort : r.churned = NoneTs }, TRUE, MaxCohort)

AddChurnedCohort ==
    AddFrom({ r \in HarvestCohort : r.churned # NoneTs }, FALSE, MaxCohort)

CohortRetention ==
    /\ pc = "build"
    /\ out' = generate_cohort_retention_table(formatted_members, MaxMonths,
                                              today)
    /\ pc' = "done"
    /\ UNCHANGED <<today, raw, billing_products, force_active, result, error,
                   prev, formatted_members, formatted_active_members>>

NextCohort ==
    \/ AddActiveCohort
    \/ AddChurnedCohort
    \/ CohortRetention

SpecCohort == Init /\ [][NextCohort]_vars

CohortDone == pc = "done" /\ out.op = "generate_cohort_retention_table"

\* the join year-month of a member with a joined_at
JoinMonth(m) == <<m.joined_at[1], m.joined_at[2]>>

\* the members of formatted_members that joined in month k
CohortOf(k) ==
    { i \in Positions :
        formatted_members[i].joined_at # << >>
          /\ JoinMonth(formatted_members[i]) = k }

\* months since year 0 of a year-month, and the first day of such a month
MonthIndex(k) == k[1] * 12 + k[2] - 1
FirstOfMonth(x) == <<x \div 12, (x % 12) + 1, 1>>

\* C16: every row reports offset 0, with month_0_count the cohort size and
\* month_0_pct 100.0, whatever the population and the reference date.
C16_OffsetZeroAlwaysReported ==
    CohortDone =>
        \A r \in 1..Len(out.rows) :
            /\ Len(out.rows[r].offsets) >= 1
            /\ out.rows[r].offsets[1] =
                 <<Cardinality(CohortOf(out.rows[r].cohort_month)), 10000>>

\* the members of cohort k retained at offset n: exited_at is null or on or
\* after cohort_start + (n + 1) months
RetainedAt(k, n) ==
    { i \in CohortOf(k) :
        formatted_members[i].exited_at = << >>
          \/ IsoLE(FirstOfMonth(MonthIndex(k) + n + 1),
                   formatted_members[i].exited_at) }

\* C17 as stated: at every emitted offset n >= 1, month_n_count is the number
\* of cohort members retained at n and month_n_pct is exactly
\* count / cohort_size * 100.
C17_RetainedExactPercent ==
    CohortDone =>
        \A r \in 1..Len(out.rows) :
            \A n \in 1..(MaxMonths - 1) :
                n + 1 <= Len(out.rows[r].offsets) =>
                    LET k     == out.rows[r].cohort_month
                        entry == out.rows[r].offsets[n + 1]
                    IN  /\ entry[1] = Cardinality(RetainedAt(k, n))
                        /\ entry[2] * Cardinality(CohortOf(k)) = entry[1] * 10000

\* C17, amended: at every emitted offset n >= 1, month_n_count is the number
\* of cohort members retained at n and month_n_pct is
\* count / cohort_size * 100 rounded to two decimals.
C17_RetainedRoundedPercent ==
    CohortDone =>
        \A r \in 1..Len(out.rows) :
            \A n \in 1..(MaxMonths - 1) :
                n + 1 <= Len(out.rows[r].offsets) =>
                    LET k     == out.rows[r].cohort_month
                        entry == out.rows[r].offsets[n + 1]
                        size  == Cardinality(CohortOf(k))
                    IN  /\ entry[1] = Cardinality(RetainedAt(k, n))
                        /\ 2 * (entry[2] * size - entry[1] * 10000) <= size
                        /\ 2 * (entry[1] * 10000 - entry[2] * size) <= size

\* a cohort of three of which two are retained at offset 1: 66.67
C17_Witness ==
    /\ CohortDone
    /\ \E r \in 1..Len(out.rows) :
         /\ Cardinality(out.rows[r].cohort_members) = 3
         /\ Len(out.rows[r].offsets) >= 2
         /\ out.rows[r].offsets[2] = <<2, 6667>>

\* C18: offset n is emitted exactly when n < max_months and
\* cohort_start + n months <= today, so the emitted offsets are a prefix
\* 0..k and none starts after today.
C18_OffsetsUpToToday ==
    CohortDone =>
        \A r \in 1..Len(out.rows) :
            \A n \in 0..MaxMonths :
                (n + 1 <= Len(out.rows[r].offsets)) <=>
                    (/\ n < MaxMonths
                     /\ MonthIndex(out.rows[r].cohort_month) + n
                          <= MonthIndex(TodayIso))

\* a cohort cut at max_months, one cut at today, one that starts after today
C18_Witness ==
    /\ CohortDone
    /\ Len(out.rows) = 3
    /\ out.rows[1].cohort_month = <<2023, 6>>
    /\ Len(out.rows[1].offsets) = MaxMonths
    /\ out.rows[2].cohort_month = <<2023, 12>>
    /\ Len(out.rows[2].offsets) = 4
    /\ out.rows[3].cohort_month = <<2024, 4>>
    /\ Len(out.rows[3].offsets) = 0

\* C19: one row per distinct join year-month of the members with a
\* joined_at, in strictly ascending cohort_month order; a member with a null
\* joined_at is in no cohort; no row when no member has a joined_at.
C19_OneRowPerJoinMonth ==
    CohortDone =>
        LET months == { JoinMonth(formatted_members[i]) :
                          i \in { j \in Positions :
                                    formatted_members[j].joined_at # << >> } }
        IN  /\ { out.rows[r].cohort_month : r \in 1..Len(out.rows) } = months
            /\ Len(out.rows) = Cardinality(months)
            /\ \A r \in 1..Len(out.rows) :
                 /\ out.rows[r].cohort_members = CohortOf(out.rows[r].cohort_month)
                 /\ r > 1 => MonthIndex(out.rows[r - 1].cohort_month)
                               < MonthIndex(out.rows[r].cohort_month)

\* two cohorts out of three members, one of them without a joined_at
C19_Witness ==
    /\ CohortDone
    /\ Len(formatted_members) = 3
    /\ \E i \in Positions : formatted_members[i].joined_at = << >>
    /\ Len(out.rows) = 2

---------------------------------------------------------------------------
(* Monthly series (hud2_charts.py)                                         *)

RECURSIVE months_from(_, _)
\* month_range's loop "while current <= end"
months_from(current, end) ==
    IF DateLE(current, end)
    THEN <<current>> \o months_from(AddMonths(current, 1), end)
    ELSE << >>

\* month_range(start, end): current = start.replace(day=1)
month_range(start, end) == months_from(<<start[1], start[2], 1>>, end)

\* min() and max() of a set of datetimes
MinDate(S) == CHOOSE d \in S : \A e \in S : DateLE(d, e)
MaxDate(S) == CHOOSE d \in S : \A e \in S : DateLE(e, d)

\* mutant: an exited member stays active
active_at_IgnoresExit(dates, at) ==
    { i \in DOMAIN dates : DateLE(dates[i].joined[1], at) }

\* the members active at a datetime: joined on or before it, not exited or
\* exited after it
active_at(dates, at) ==
    { i \in DOMAIN dates :
        /\ DateLE(dates[i].joined[1], at)
        /\ (dates[i].exited = << >> \/ ~DateLE(dates[i].exited[1], at)) }

RECURSIVE SumField(_, _, _)
\* sum(m[field] for m in the members at the positions S)
SumField(members, field, S) ==
    IF S = {} THEN 0
    ELSE LET i == CHOOSE x \in S : TRUE
         IN  members[i][field] + SumField(members, field, S \ {i})

\* calculate_monthly_metrics, one pass of "for month_start in months"
monthly_row(members, dates, month_start, month_end) ==
    LET active_start == active_at(dates, month_start)
        active_end   == active_at(dates, month_end)
        new_members  ==
            { i \in DOMAIN dates :
                /\ dates[i].joined[1][1] = month_start[1]
                /\ dates[i].joined[1][2] = month_start[2] }
        churned_members ==
            { i \in DOMAIN dates :
                /\ dates[i].exited # << >>
                /\ dates[i].exited[1][1] = month_start[1]
                /\ dates[i].exited[1][2] = month_start[2] }
        mrr          == SumField(members, "mrr", active_end)
        churn_count  == Cardinality(churned_members)
        n_start      == Cardinality(active_start)
        churn_rate   == IF n_start > 0 THEN Ratio(churn_count, n_start)
                        ELSE Ratio(0, 1)
        n_paying     == Cardinality({ i \in active_start : members[i].mrr > 0 })
        arpu         == IF n_paying > 0 THEN Ratio(mrr, MrrDen * n_paying)
                        ELSE Ratio(0, 1)
    IN  [month            |-> <<month_start[1], month_start[2]>>,
         mrr              |-> mrr,
         ltv              |-> IF churn_rate.num > 0
                              THEN <<RatioDiv(arpu, churn_rate)>> ELSE << >>,
         new_members      |-> Cardinality(new_members),
         acquisition_rate |-> IF n_start > 0
                              THEN Ratio(Cardinality(new_members), n_start)
                              ELSE Ratio(0, 1),
         churned_members  |-> churn_count,
         churn_rate       |-> churn_rate,
         price            |-> SumField(members, "price", active_end)]

\* calculate_monthly_metrics from "Find range" on, on parsed datetimes that
\* are all set: month_end = month_start + relativedelta(months=1) - 1 day
monthly_rows(members, dates, today_dt) ==
    LET min_join == MinDate({ dates[i].joined[1] : i \in DOMAIN dates })
        max_exit == MaxDate({ dates[i].exited[1] :
                                i \in { j \in DOMAIN dates :
                                          dates[j].exited # << >> } }
                            \cup { today_dt })
        months   == month_range(min_join, max_exit)
    IN  [ r \in 1..Len(months) |->
            CHOOSE row \in
                { monthly_row(members, dates, months[r], month_end) :
                    month_end \in
                      { DateOf(strptime(AddMonths(months[r], 1)) - 1) } } :
                TRUE ]

\* calculate_monthly_metrics: min() over the joined_at_dt raises TypeError
\* when one of several is None, and a lone None has no strftime
calculate_monthly_metrics(members, now) ==
    IF Len(members) = 0 THEN Ok(<< >>)
    ELSE IF \E i \in 1..Len(members) : members[i].joined_at = << >>
    THEN Raise(IF Len(members) = 1 THEN "AttributeError" ELSE "TypeError")
    ELSE Ok(CHOOSE t \in
              { monthly_rows(members, dates, today_dt) :
                  dates \in { [ i \in 1..Len(members) |->
                                  MemberDates(members[i]) ] },
                  today_dt \in { DateOf(now) } } : TRUE)

\* the records of the member listings, with exits before and after today
HarvestMonthly ==
    { RawRecord(<<"dict", "dict", "dict">>, j, c, NoneTs, b) :
        j \in { Iso(2023, 12, 20), Iso(2024, 1, 15), Iso(2024, 3, 5) },
        c \in { NoneTs, Iso(2024, 2, 10), Iso(2024, 4, 20) },
        b \in { "bp_m", "" } }
    \cup { RawRecord(<<"dict", "dict", "dict">>, JunkStr, NoneTs, NoneTs,
                     "bp_m") }

AddActiveMonthly ==
    AddFrom({ r \in HarvestMonthly : r.churned = NoneTs }, TRUE, MaxMembers)

AddChurnedMonthly ==
    AddFrom({ r \in HarvestMonthly : r.churned # NoneTs }, FALSE, MaxMembers)

\* update_hud2's line charts section: the call parses the dates into the
\* member dicts before it looks for the range
CalculateMonthlyMetrics ==
    /\ pc = "build"
    /\ formatted_members' =
         IF Len(formatted_members) = 0 THEN formatted_members
         ELSE ParseDates(formatted_members)
    /\ formatted_active_members' =
         IF Len(formatted_members) = 0 THEN formatted_active_members
         ELSE ParseDates(formatted_active_members)
    /\ LET r == calculate_monthly_metrics(formatted_members, today)
       IN  /\ out' = [op |-> "calculate_monthly_metrics", rows |-> r.val]
           /\ error' = r.exc
    /\ pc' = "done"
    /\ UNCHANGED <<today, raw, billing_products, force_active, result, prev>>

\* a second call on the same list, whose dicts the first call has written
\* to; what the first call returned or raised is kept in prev
CalculateMonthlyMetricsAgain ==
    /\ pc = "done"
    /\ out.op = "calculate_monthly_metrics"
    /\ prev = << >>
    /\ prev' = <<[out |-> out, error |-> error]>>
    /\ formatted_members' =
         IF Len(formatted_members) = 0 THEN formatted_members
         ELSE ParseDates(formatted_members)
    /\ formatted_active_members' =
         IF Len(formatted_members) = 0 THEN formatted_active_members
         ELSE ParseDates(formatted_active_members)
    /\ LET r == calculate_monthly_metrics(formatted_members, today)
       IN  /\ out' = [op |-> "calculate_monthly_metrics", rows |-> r.val]
           /\ error' = r.exc
    /\ UNCHANGED <<pc, today, raw, billing_products, force_active, result>>

NextMonthly ==
    \/ AddActiveMonthly
    \/ AddChurnedMonthly
    \/ CalculateMonthlyMetrics
    \/ CalculateMonthlyMetricsAgain

SpecMonthly == Init /\ [][NextMonthly]_vars

MonthlyDone == pc = "done" /\ out.op = "calculate_monthly_metrics"

\* the months of the rows are those from the month of the earliest joined_at
\* to the month of the later of the latest exited_at and today, in order
MonthsCoverRange ==
    LET joined == { MonthIndex(JoinMonth(formatted_members[i])) :
                      i \in { j \in Positions :
                                formatted_members[j].joined_at # << >> } }
        exited == { MonthIndex(<<formatted_members[i].exited_at[1],
                                 formatted_members[i].exited_at[2]>>) :
                      i \in { j \in Positions :
                                formatted_members[j].exited_at # << >> } }
                  \cup { MonthIndex(TodayIso) }
        first  == CHOOSE x \in joined : \A y \in joined : x <= y
        last   == CHOOSE x \in exited : \A y \in exited : y <= x
    IN  /\ joined # {}
        /\ Len(out.rows) = last - first + 1
        /\ \A r \in 1..Len(out.rows) :
             MonthIndex(out.rows[r].month) = first + r - 1

\* C20: calculate_monthly_metrics returns one row for each calendar month
\* from the month of the earliest joined_at to the month of
\* max(latest exited_at, today), ascending, without gap or duplicate, and
\* the empty list for an empty member list.
C20_OneRowPerMonth ==
    MonthlyDone =>
        /\ error = ""
        /\ IF Len(formatted_members) = 0 THEN out.rows = << >>
           ELSE MonthsCoverRange

\* the first day of the month of a row, as an ISO date
RowStartIso(row) == <<row.month[1], row.month[2], 1>>

\* the members active at the start of a row's month
ActiveAtRowStart(row) ==
    { i \in Positions :
        /\ formatted_members[i].joined_at # << >>
        /\ IsoLE(formatted_members[i].joined_at, RowStartIso(row))
        /\ (formatted_members[i].exited_at = << >>
              \/ ~IsoLE(formatted_members[i].exited_at, RowStartIso(row))) }

\* C21: in every monthly row churn_rate = churned_members / |active_start|
\* and acquisition_rate = new_members / |active_start|, both 0 when nobody is
\* active at the month start; ltv = arpu / churn_rate and is null exactly
\* when churn_rate = 0; no month raises a division error.
C21_MonthlyRowRates ==
    MonthlyDone =>
        /\ error # "ZeroDivisionError"
        /\ \A r \in 1..Len(out.rows) :
             LET row      == out.rows[r]
                 n_start  == Cardinality(ActiveAtRowStart(row))
                 n_paying == Cardinality({ i \in ActiveAtRowStart(row) :
                                             formatted_members[i].mrr > 0 })
             IN  /\ IF n_start = 0
                    THEN row.churn_rate.num = 0 /\ row.acquisition_rate.num = 0
                    ELSE /\ row.churn_rate.num * n_start
                              = row.churned_members * row.churn_rate.den
                         /\ row.acquisition_rate.num * n_start
                              = row.new_members * row.acquisition_rate.den
                 /\ (row.ltv = << >>) <=> (row.churn_rate.num = 0)
                 /\ row.ltv # << >> =>
                      IF n_paying = 0 THEN row.ltv[1].num = 0
                      ELSE row.ltv[1].num * (MrrDen * n_paying * row.churned_members)
                             = row.mrr * n_start * row.ltv[1].den

\* a month with churn and a positive ltv, after a month nobody started in
C21_Witness ==
    /\ MonthlyDone
    /\ \E r, q \in 1..Len(out.rows) :
         /\ out.rows[r].ltv # << >>
         /\ out.rows[r].ltv[1].num > 0
         /\ Cardinality(ActiveAtRowStart(out.rows[r])) = 2
         /\ Cardinality(ActiveAtRowStart(out.rows[q])) = 0
         /\ out.rows[q].new_members > 0

\* the members that have a joined_at
well_formed(members) == SelectSeq(members, LAMBDA m : m.joined_at # << >>)

\* C22: a single malformed member never aborts a calculator: with one member
\* whose joined_at is null in the list, the monthly builder still returns the
\* rows computed from the remaining members.
C22_MalformedMemberNeverAborts ==
    (/\ MonthlyDone
     /\ Cardinality({ i \in Positions :
                        formatted_members[i].joined_at = << >> }) = 1) =>
        /\ error = ""
        /\ out.rows =
             calculate_monthly_metrics(well_formed(formatted_members), today).val

CeilingPctGrowth == Ratio(95, 100)
CeilingPctMember == Ratio(99, 100)
DaysPerMonth == Ratio(3044, 100)
One == Ratio(1, 1)

ZeroTime == [zero |-> TRUE, ratio |-> One, churn_rate |-> One, times |-> One]

\* the inner function: member_ceiling and churn_rate are floats,
\* current_members an int
time_to_pct_ceiling(pct, member_ceiling, current_members, churn_rate) ==
    IF \/ member_ceiling.num = 0
       \/ current_members * member_ceiling.den >= member_ceiling.num
    THEN ZeroTime
    ELSE LET ratio == Ratio(member_ceiling.num * (pct.den - pct.num),
                            pct.den * (member_ceiling.num
                                       - current_members * member_ceiling.den))
         IN  IF ratio.num <= 0 THEN ZeroTime
             ELSE [zero |-> FALSE, ratio |-> ratio,
                   churn_rate |-> churn_rate, times |-> One]

\* t * 30.44
InDays(t) == IF t.zero THEN t ELSE [t EXCEPT !.times = DaysPerMonth]

\* the body, with the test that selects the all-null branch as no_churn
growth_metrics_when(no_churn, current_members, monthly_acquisition, monthly_churn_count, churn_rate, average_price) ==
    IF no_churn
    THEN [op |-> "calculate_growth_metrics",
          member_ceiling |-> << >>, growth_rate |-> Ratio(0, 1),
          mrr_ceiling |-> << >>, potential_max_revenue |-> << >>,
          days_to_growth_ceiling |-> << >>, days_to_member_ceiling |-> << >>,
          months_to_growth_ceiling |-> << >>]
    ELSE LET member_ceiling ==
                 Ratio(monthly_acquisition * churn_rate.den, churn_rate.num)
             mrr_ceiling ==
                 Ratio(member_ceiling.num * average_price.num,
                       member_ceiling.den * average_price.den)
             months == time_to_pct_ceiling(CeilingPctGrowth, member_ceiling,
                                           current_members, churn_rate)
             member == time_to_pct_ceiling(CeilingPctMember, member_ceiling,
                                           current_members, churn_rate)
         IN  [op |-> "calculate_growth_metrics",
              member_ceiling |-> <<member_ceiling>>,
              growth_rate |->
                  IF current_members > 0
                  THEN Ratio(monthly_acquisition - monthly_churn_count,
                             current_members)
                  ELSE Ratio(0, 1),
              mrr_ceiling |-> <<mrr_ceiling>>,
              potential_max_revenue |->
                  <<Ratio(mrr_ceiling.num * MrrDen, mrr_ceiling.den)>>,
              days_to_growth_ceiling |-> <<InDays(months)>>,
              days_to_member_ceiling |-> <<InDays(member)>>,
              months_to_growth_ceiling |-> <<months>>]

\* mutant: the all-null branch is chosen by the churn count, not the rate
calculate_growth_metrics_TestsChurnCount(current_members, monthly_acquisition, monthly_churn_count, churn_rate, average_price) ==
    growth_metrics_when(monthly_churn_count = 0, current_members,
                        monthly_acquisition, monthly_churn_count, churn_rate,
                        average_price)

calculate_growth_metrics(current_members, monthly_acquisition, monthly_churn_count, churn_rate, average_price) ==
    growth_metrics_when(churn_rate.num = 0, current_members,
                        monthly_acquisition, monthly_churn_count, churn_rate,
                        average_price)

\* the arguments tried: member counts, 30-day counts, churn rates and
\* average prices (cents)
GrowthMembers == {0, 1, 50, 96, 98, 100, 120}
GrowthCounts == {0, 2, 10}
GrowthChurnRates == {Ratio(0, 1), Ratio(1, 10), Ratio(1, 20), Ratio(1, 2)}
GrowthPrices == {Ratio(0, 1), Ratio(4900, 1), Ratio(9850, 3)}

InitGrowth ==
    /\ pc = "growth"
    /\ today = RefDay
    /\ raw = RawRecord(<<"absent", "absent", "absent">>, NoneTs, NoneTs, NoneTs, "")
    /\ billing_products = Catalogue
    /\ force_active = TRUE
    /\ \E c \in GrowthMembers, a \in GrowthCounts, k \in GrowthCounts,
          r \in GrowthChurnRates, p \in GrowthPrices :
         result = <<[current_members |-> c, monthly_acquisition |-> a,
                     monthly_churn_count |-> k, churn_rate |-> r,
                     average_price |-> p]>>
    /\ error = ""
    /\ prev = << >>
    /\ formatted_members = << >>
    /\ formatted_active_members = << >>
    /\ out = NoOut

CalculateGrowthMetrics ==
    /\ pc = "growth"
    /\ LET a == result[1]
       IN  out' = calculate_growth_metrics(a.current_members,
                      a.monthly_acquisition, a.monthly_churn_count,
                      a.churn_rate, a.average_price)
    /\ pc' = "done"
    /\ UNCHANGED <<today, raw, billing_products, force_active, result, error,
                   prev, formatted_members, formatted_active_members>>

NextGrowth == CalculateGrowthMetrics

SpecGrowth == InitGrowth /\ [][NextGrowth]_vars

GrowthDone == pc = "done" /\ out.op = "calculate_growth_metrics"

GrowthArgs == result[1]

TimeFields ==
    {<<out.months_to_growth_ceiling, CeilingPctGrowth>>,
     <<out.days_to_growth_ceiling, CeilingPctGrowth>>,
     <<out.days_to_member_ceiling, CeilingPctMember>>}

\* -math.log(ratio) / churn_rate < 0
TimeNegative(t) ==
    /\ ~t.zero
    /\ t.churn_rate.num > 0
    /\ t.ratio.num > t.ratio.den

\* current_members >= pct * member_ceiling
MeetsTarget(pct) ==
    LET mc == out.member_ceiling[1]
    IN  GrowthArgs.current_members * pct.den * mc.den >= pct.num * mc.num

\* C26: a time to a percentage of the ceiling is 0 whenever current_members
\* has reached that percentage of member_ceiling, and so is never negative.
C26_TimeClampedAtTarget ==
    (GrowthDone /\ out.member_ceiling # << >>) =>
        \A f \in TimeFields :
            /\ MeetsTarget(f[2]) => f[1][1].zero
            /\ ~TimeNegative(f[1][1])

\* ---------------------------------------------------------------------
\* upsert_hud2_charts (hud2_charts.py) over successive runs of update_hud2
\* for one community.  result holds the hud2_charts rows of the community,
\* the (community_slug, month) keys still to delete, the exception the
\* function caught and the number of the run; prev holds the table as it was
\* when the upsert began.  Every execute() is one request: it takes effect
\* or it raises.
\* ---------------------------------------------------------------------
MaxRuns == 2

HarvestCharts ==
    { RawRecord(<<"dict", "dict", "dict">>, j, c, NoneTs, "bp_m") :
        j \in { Iso(2023, 12, 20), Iso(2024, 1, 15) },
        c \in { NoneTs, Iso(2024, 2, 10) } }

InitCharts ==
    /\ pc = "build"
    /\ today = RefDay
    /\ raw = RawRecord(<<"absent", "absent", "absent">>, NoneTs, NoneTs, NoneTs, "")
    /\ billing_products = Catalogue
    /\ force_active = TRUE
    /\ result = [hud2_charts |-> {}, unique_keys |-> {}, caught |-> "",
                 run |-> 1]
    /\ error = ""
    /\ prev = << >>
    /\ formatted_members = << >>
    /\ formatted_active_members = << >>
    /\ out = NoOut

AddActiveCharts ==
    AddFrom({ r \in HarvestCharts : r.churned = NoneTs }, TRUE, MaxMembers)

AddChurnedCharts ==
    AddFrom({ r \in HarvestCharts : r.churned # NoneTs }, FALSE, MaxMembers)

\* the rows of a metrics list
RowsOf(metrics) == { metrics[i] : i \in 1..Len(metrics) }

\* upsert_hud2_charts, up to the delete loop: the keys of the metrics
UpsertCollectKeys ==
    /\ pc = "done"
    /\ out.op = "calculate_monthly_metrics"
    /\ error = ""
    /\ result' = [result EXCEPT
                    !.unique_keys = { r.month : r \in RowsOf(out.rows) },
                    !.caught = ""]
    /\ prev' = <<result.hud2_charts>>
    /\ pc' = "delete"
    /\ UNCHANGED <<today, raw, billing_products, force_active, error,
                   formatted_members, formatted_active_members, out>>

\* one pass of the delete loop
UpsertDelete ==
    /\ pc = "delete"
    /\ \E month \in result.unique_keys :
         result' = [result EXCEPT
                      !.hud2_charts = { r \in @ : r.month # month },
                      !.unique_keys = @ \ {month}]
    /\ UNCHANGED <<pc, today, raw, billing_products, force_active, error, prev,
                   formatted_members, formatted_active_members, out>>

\* the insert after the loop
UpsertInsert ==
    /\ pc = "delete"
    /\ result.unique_keys = {}
    /\ result' = [result EXCEPT !.hud2_charts = @ \cup RowsOf(out.rows)]
    /\ pc' = "synced"
    /\ UNCHANGED <<today, raw, billing_products, force_active, error, prev,
                   formatted_members, formatted_active_members, out>>

\* a delete or the insert raises: the except clause prints and returns
UpsertRaises ==
    /\ pc = "delete"
    /\ result' = [result EXCEPT !.unique_keys = {}, !.caught = "Exception"]
    /\ pc' = "synced"
    /\ UNCHANGED <<today, raw, billing_products, force_active, error, prev,
                   formatted_members, formatted_active_members, out>>

\* the next run of update_hud2 fetches the members again
NextRun ==
    /\ pc = "synced"
    /\ result.run < MaxRuns
    /\ result' = [result EXCEPT !.run = @ + 1, !.caught = ""]
    /\ pc' = "build"
    /\ force_active' = TRUE
    /\ formatted_members' = << >>
    /\ formatted_active_members' = << >>
    /\ out' = NoOut
    /\ prev' = << >>
    /\ UNCHANGED <<today, raw, billing_products, error>>

NextCharts ==
    \/ AddActiveCharts
    \/ AddChurnedCharts
    \/ CalculateMonthlyMetrics
    \/ UpsertCollectKeys
    \/ UpsertDelete
    \/ UpsertInsert
    \/ UpsertRaises
    \/ NextRun

SpecCharts == InitCharts /\ [][NextCharts]_vars

ChartsSynced == pc = "synced" /\ out.op = "calculate_monthly_metrics"

\* C27: after a run's upsert the persisted rows of the community are exactly
\* the rows the run computed, and when a request of the upsert failed they
\* are those rows or the rows that were there before.
C27_TableIsLatestRun ==
    ChartsSynced =>
        \/ result.hud2_charts = RowsOf(out.rows)
        \/ result.caught # "" /\ result.hud2_charts = prev[1]

\* C29: within every cohort row the counts do not increase with the offset
\* and do not exceed the cohort size, and every percentage (in hundredths)
\* lies between 0 and 100.
C29_CountsNonIncreasing ==
    CohortDone =>
        \A r \in 1..Len(out.rows) :
            LET row == out.rows[r]
            IN  \A n \in 1..Len(row.offsets) :
                    /\ row.offsets[n][1] >= 0
                    /\ row.offsets[n][1] <= Cardinality(row.cohort_members)
                    /\ n > 1 => row.offsets[n][1] <= row.offsets[n - 1][1]
                    /\ row.offsets[n][2] >= 0
                    /\ row.offsets[n][2] <= 10000

\* a row whose count falls twice, to a non-zero count
C29_Witness ==
    /\ CohortDone
    /\ \E r \in 1..Len(out.rows) :
         LET row == out.rows[r]
         IN  \E n \in 1..Len(row.offsets), k \in 1..Len(row.offsets) :
                 /\ n < k
                 /\ k < Len(row.offsets)
                 /\ row.offsets[k][1] < row.offsets[n][1]
                 /\ row.offsets[k + 1][1] < row.offsets[k][1]
                 /\ row.offsets[k + 1][1] > 0

\* ---------------------------------------------------------------------
\* sync_cohort_to_db (hud2.py) over successive runs of update_hud2 for the
\* community ThisSlug.  result holds the hud2_cohort table as the sequence of
\* its rows, the rows the call prepared, the keys it still has to delete and
\* the number of the run.  Every execute() is one request: it takes effect
\* or it raises, and the function catches nothing.
\* ---------------------------------------------------------------------
ThisSlug == "c1"

\* rows of another community, present before the first run
OtherRows ==
    <<[community_slug |-> "c2", cohort_month |-> <<2023, 12, 1>>,
       month_index |-> 0, count |-> 5, pct |-> 10000],
      [community_slug |-> "c2", cohort_month |-> <<2023, 12, 1>>,
       month_index |-> 1, count |-> 4, pct |-> 8000]>>

\* mutant: the delete of the community's rows removes nothing
delete_community_rows_Nothing(table, community_slug) == table

\* delete().eq("community_slug", community_slug)
delete_community_rows(table, community_slug) ==
    SelectSeq(table, LAMBDA r : r.community_slug # community_slug)

\* delete().eq(community_slug).eq(cohort_month).eq(month_index)
delete_cohort_key(table, community_slug, key) ==
    SelectSeq(table, LAMBDA r :
        ~(/\ r.community_slug = community_slug
          /\ r.cohort_month = key[1]
          /\ r.month_index = key[2]))

RECURSIVE upsert_rows_from(_, _, _)
\* the rows appended for the offsets n, n + 1, ... of one cohort row
upsert_rows_from(row, community_slug, n) ==
    IF n >= MaxMonths \/ n >= Len(row.offsets) THEN << >>
    ELSE <<[community_slug |-> community_slug,
            cohort_month |-> <<row.cohort_month[1], row.cohort_month[2], 1>>,
            month_index |-> n,
            count |-> row.offsets[n + 1][1],
            pct |-> row.offsets[n + 1][2]]>>
         \o upsert_rows_from(row, community_slug, n + 1)

RECURSIVE upsert_rows(_, _, _)
\* the rows prepared from the cohort rows r, r + 1, ...
upsert_rows(cohort_retention_rows, community_slug, r) ==
    IF r > Len(cohort_retention_rows) THEN << >>
    ELSE upsert_rows_from(cohort_retention_rows[r], community_slug, 0)
         \o upsert_rows(cohort_retention_rows, community_slug, r + 1)

\* the (cohort_month, month_index) keys of the rows of a community
cohort_keys(rows, community_slug) ==
    { <<rows[i].cohort_month, rows[i].month_index>> :
        i \in { j \in DOMAIN rows : rows[j].community_slug = community_slug } }

HarvestCohortSync ==
    { RawRecord(<<"dict", "dict", "dict">>, j, c, NoneTs, "bp_m") :
        j \in { Iso(2023, 12, 20), Iso(2024, 1, 15) },
        c \in { NoneTs, Iso(2024, 2, 10) } }

InitCohortSync ==
    /\ pc = "build"
    /\ today = RefDay
    /\ raw = RawRecord(<<"absent", "absent", "absent">>, NoneTs, NoneTs, NoneTs, "")
    /\ billing_products = Catalogue
    /\ force_active = TRUE
    /\ result = [hud2_cohort |-> OtherRows, upsert_rows |-> << >>,
                 to_delete |-> {}, run |-> 1]
    /\ error = ""
    /\ prev = << >>
    /\ formatted_members = << >>
    /\ formatted_active_members = << >>
    /\ out = NoOut

AddActiveCohortSync ==
    AddFrom({ r \in HarvestCohortSync : r.churned = NoneTs }, TRUE, MaxMembers)

AddChurnedCohortSync ==
    AddFrom({ r \in HarvestCohortSync : r.churned # NoneTs }, FALSE, MaxMembers)

\* sync_cohort_to_db up to its delete loop: the new rows and keys, the
\* existing keys fetched from the table, the keys to delete
SyncCohortPrepare ==
    /\ pc = "done"
    /\ out.op = "generate_cohort_retention_table"
    /\ LET rows == upsert_rows(out.rows, ThisSlug, 1)
       IN  result' = [result EXCEPT
                        !.upsert_rows = rows,
                        !.to_delete = cohort_keys(result.hud2_cohort, ThisSlug)
                                        \ cohort_keys(rows, ThisSlug)]
    /\ pc' = "sync_delete"
    /\ UNCHANGED <<today, raw, billing_products, force_active, error, prev,
                   formatted_members, formatted_active_members, out>>

\* one pass of the loop over to_delete
SyncCohortDeleteKey ==
    /\ pc = "sync_delete"
    /\ \E key \in result.to_delete :
         result' = [result EXCEPT
                      !.hud2_cohort = delete_cohort_key(@, ThisSlug, key),
                      !.to_delete = @ \ {key}]
    /\ UNCHANGED <<pc, today, raw, billing_products, force_active, error, prev,
                   formatted_members, formatted_active_members, out>>

\* the delete of every row of the community
SyncCohortDeleteAll ==
    /\ pc = "sync_delete"
    /\ result.to_delete = {}
    /\ result' = [result EXCEPT
                    !.hud2_cohort = delete_community_rows(@, ThisSlug)]
    /\ pc' = "sync_insert"
    /\ UNCHANGED <<today, raw, billing_products, force_active, error, prev,
                   formatted_members, formatted_active_members, out>>

\* the insert of the new rows; the function then returns
SyncCohortInsert ==
    /\ pc = "sync_insert"
    /\ result' = [result EXCEPT !.hud2_cohort = @ \o result.upsert_rows]
    /\ pc' = "synced"
    /\ UNCHANGED <<today, raw, billing_products, force_active, error, prev,
                   formatted_members, formatted_active_members, out>>

\* a request raises: the exception leaves sync_cohort_to_db
SyncCohortRaises ==
    /\ pc \in {"sync_delete", "sync_insert"}
    /\ error' = "Exception"
    /\ pc' = "aborted"
    /\ UNCHANGED <<today, raw, billing_products, force_active, result, prev,
                   formatted_members, formatted_active_members, out>>

\* the next run of update_hud2 fetches the members again
NextCohortRun ==
    /\ pc \in {"synced", "aborted"}
    /\ result.run < MaxRuns
    /\ result' = [result EXCEPT !.run = @ + 1, !.upsert_rows = << >>,
                                !.to_delete = {}]
    /\ pc' = "build"
    /\ force_active' = TRUE
    /\ formatted_members' = << >>
    /\ formatted_active_members' = << >>
    /\ out' = NoOut
    /\ error' = ""
    /\ UNCHANGED <<today, raw, billing_products, prev>>

NextCohortSync ==
    \/ AddActiveCohortSync
    \/ AddChurnedCohortSync
    \/ CohortRetention
    \/ SyncCohortPrepare
    \/ SyncCohortDeleteKey
    \/ SyncCohortDeleteAll
    \/ SyncCohortInsert
    \/ SyncCohortRaises
    \/ NextCohortRun

SpecCohortSync == InitCohortSync /\ [][NextCohortSync]_vars

CohortSynced == pc = "synced" /\ out.op = "generate_cohort_retention_table"

\* the positions of the table that hold a row of ThisSlug with this key
RowsWithKey(cohort_month, month_index) ==
    { i \in DOMAIN result.hud2_cohort :
        /\ result.hud2_cohort[i].community_slug = ThisSlug
        /\ result.hud2_cohort[i].cohort_month = cohort_month
        /\ result.hud2_cohort[i].month_index = month_index }

\* C28: when sync_cohort_to_db has returned, the table holds for the
\* community exactly one row per (cohort_month, offset) of the latest cohort
\* table, with that offset's count and percentage, no other row of the
\* community, and the rows of other communities as they were.
C28_CohortTableIsLatestRun ==
    CohortSynced =>
        /\ \A r \in 1..Len(out.rows) :
             \A n \in 1..Len(out.rows[r].offsets) :
               LET row == out.rows[r]
                   at == RowsWithKey(<<row.cohort_month[1],
                                       row.cohort_month[2], 1>>, n - 1)
               IN  /\ Cardinality(at) = 1
                   /\ \A i \in at :
                        /\ result.hud2_cohort[i].count = row.offsets[n][1]
                        /\ result.hud2_cohort[i].pct = row.offsets[n][2]
        /\ \A i \in DOMAIN result.hud2_cohort :
             result.hud2_cohort[i].community_slug = ThisSlug =>
               \E r \in 1..Len(out.rows) :
                 /\ result.hud2_cohort[i].cohort_month
                      = <<out.rows[r].cohort_month[1],
                          out.rows[r].cohort_month[2], 1>>
                 /\ result.hud2_cohort[i].month_index
                      < Len(out.rows[r].offsets)
        /\ SelectSeq(result.hud2_cohort,
                     LAMBDA x : x.community_slug # ThisSlug) = OtherRows

\* a second run has returned whose table lacks a cohort of the first run
\* and shares one with it
C28_Witness ==
    /\ CohortSynced
    /\ result.run = 2
    /\ Len(out.rows) = 1
    /\ out.rows[1].cohort_month = <<2024, 1>>
    /\ RowsWithKey(<<2024, 1, 1>>, 1) # {}
    /\ Len(result.hud2_cohort) = Len(OtherRows) + Len(result.upsert_rows)

\* ---------------------------------------------------------------------
\* request_with_retries (utils.py).  result holds the arguments and the
\* locals of the call (attempt is the loop variable, proxies is
\* kwargs["proxies"], "" for None); out holds what the call has done so far:
\* the requests made, each with the proxies and timeout it was given and its
\* outcome, the sleeps taken, and the value returned.  An outcome is the
\* status code of the response or the exception scraper.request raised.
\* ---------------------------------------------------------------------
MaxRetries == 3
RETRY_BACKOFF_SECONDS == 2
RETRY_TIMEOUT_SECONDS == 30
PROXY_TIMEOUT_SECONDS == 60

get_timeout_for_request(use_proxy) ==
    IF use_proxy THEN PROXY_TIMEOUT_SECONDS ELSE RETRY_TIMEOUT_SECONDS

Outcomes == {"200", "401", "404", "500", "ProxyError", "Timeout"}

\* raise_for_status raises HTTPError, a RequestException, for 4xx and 5xx
raises_for_status(outcome) == outcome \in {"401", "404", "500"}

\* scraper.request raised
request_raised(outcome) == outcome \in {"ProxyError", "Timeout"}

\* mutant: the sleep does not grow with the attempt
sleep_time_Constant(backoff, attempt) == backoff

sleep_time(backoff, attempt) == backoff * attempt

NoRequestOut ==
    [op |-> "request_with_retries", returned |-> FALSE, response |-> << >>,
     attempts |-> << >>, sleeps |-> << >>]

InitRetry ==
    /\ pc = "attempt"
    /\ today = RefDay
    /\ raw = RawRecord(<<"absent", "absent", "absent">>, NoneTs, NoneTs, NoneTs, "")
    /\ billing_products = Catalogue
    /\ force_active = TRUE
    /\ \E max_retries \in 0..MaxRetries,
          backoff \in {1, RETRY_BACKOFF_SECONDS},
          skip_retry_on_404 \in BOOLEAN, skip_retry_on_401 \in BOOLEAN,
          proxies \in {"", "proxy"} :
         result = [max_retries |-> max_retries, backoff |-> backoff,
                   skip_retry_on_404 |-> skip_retry_on_404,
                   skip_retry_on_401 |-> skip_retry_on_401,
                   proxies |-> proxies,
                   use_proxy |-> proxies # "",
                   timeout |-> get_timeout_for_request(proxies # ""),
                   attempt |-> 1]
    /\ error = ""
    /\ prev = << >>
    /\ formatted_members = << >>
    /\ formatted_active_members = << >>
    /\ out = NoRequestOut

\* one pass of the loop up to its return or its sleep
Request ==
    /\ pc = "attempt"
    /\ result.attempt <= result.max_retries
    /\ \E outcome \in Outcomes :
         LET made == [proxies |-> result.proxies, timeout |-> result.timeout,
                      outcome |-> outcome]
             attempts == Append(out.attempts, made)
             response == <<[attempt |-> result.attempt,
                            status_code |-> outcome]>>
             skipped == \/ result.skip_retry_on_404 /\ outcome = "404"
                        \/ result.skip_retry_on_401 /\ outcome = "401"
             failed == ~skipped
                         /\ (request_raised(outcome)
                               \/ raises_for_status(outcome))
             drop_proxy == /\ outcome = "ProxyError"
                           /\ result.attempt < result.max_retries
                           /\ result.use_proxy
         IN  IF ~failed
             THEN /\ out' = [out EXCEPT !.attempts = attempts,
                                        !.returned = TRUE,
                                        !.response = response]
                  /\ pc' = "returned"
                  /\ result' = result
             ELSE /\ result' =
                       IF drop_proxy
                       THEN [result EXCEPT
                               !.proxies = "", !.use_proxy = FALSE,
                               !.timeout = get_timeout_for_request(FALSE)]
                       ELSE result
                  /\ IF result.attempt = result.max_retries
                     THEN /\ out' = [out EXCEPT !.attempts = attempts,
                                                !.returned = TRUE]
                          /\ pc' = "returned"
                     ELSE /\ out' = [out EXCEPT !.attempts = attempts]
                          /\ pc' = "sleep"
    /\ UNCHANGED <<today, raw, billing_products, force_active, error, prev,
                   formatted_members, formatted_active_members>>

\* time.sleep(sleep_time), then the next pass
Sleep ==
    /\ pc = "sleep"
    /\ out' = [out EXCEPT !.sleeps =
                 Append(@, sleep_time(result.backoff, result.attempt))]
    /\ result' = [result EXCEPT !.attempt = @ + 1]
    /\ pc' = "attempt"
    /\ UNCHANGED <<today, raw, billing_products, force_active, error, prev,
                   formatted_members, formatted_active_members>>

\* range(1, max_retries + 1) is exhausted without a pass: the function ends
\* without a return statement
FallThrough ==
    /\ pc = "attempt"
    /\ result.attempt > result.max_retries
    /\ out' = [out EXCEPT !.returned = TRUE]
    /\ pc' = "returned"
    /\ UNCHANGED <<today, raw, billing_products, force_active, result, error,
                   prev, formatted_members, formatted_active_members>>

NextRetry ==
    \/ Request
    \/ Sleep
    \/ FallThrough

SpecRetry == InitRetry /\ [][NextRetry]_vars

\* every request is given a timeout and every sleep is finite, so a pass
\* that can be taken is taken
SpecRetryFair == SpecRetry /\ WF_vars(NextRetry)

RetryReturned == pc = "returned" /\ out.op = "request_with_retries"

\* attempt k got a response the function returns
AttemptSucceeded(k) ==
    LET o == out.attempts[k].outcome
    IN  \/ o = "200"
        \/ o = "404" /\ result.skip_retry_on_404
        \/ o = "401" /\ result.skip_retry_on_401

RetrySafety ==
    out.op = "request_with_retries" =>
        /\ Len(out.attempts) <= result.max_retries
        /\ \A k \in 1..Len(out.attempts) :
             AttemptSucceeded(k) =>
               /\ k = Len(out.attempts)
               /\ out.returned
               /\ out.response = <<[attempt |-> k,
                                    status_code |-> out.attempts[k].outcome]>>
        /\ out.returned =>
             /\ (out.response = << >>) <=>
                  /\ Len(out.attempts) = result.max_retries
                  /\ \A k \in 1..Len(out.attempts) : ~AttemptSucceeded(k)
             /\ Len(out.attempts) > 0 =>
                  Len(out.sleeps) = Len(out.attempts) - 1
        /\ Len(out.sleeps) <= Len(out.attempts)
        /\ Len(out.sleeps) >= Len(out.attempts) - 1
        /\ \A k \in 1..Len(out.sleeps) :
             /\ out.sleeps[k] = result.backoff * k
             /\ ~AttemptSucceeded(k)
        /\ \A j, k \in 1..Len(out.attempts) :
             (j < k /\ out.attempts[j].outcome = "ProxyError") =>
                out.attempts[k].proxies = ""

===========================================================================
